---- MODULE Spec2Model ----
(***************************************************************************)
(* A model of the defender_report pipeline: department classification      *)
(* (grouping.py), compliance categorization and tally (categorization.py)  *)
(* and the orchestration of main.py.                                       *)
(*                                                                         *)
(* Text is modelled as a sequence of one-character strings, so that        *)
(* str.lower, str.upper, str.strip, re.search and re.sub are computed      *)
(* character by character as Python computes them.  An Optional value is   *)
(* None == <<>> or Some(x) == <<x>>.                                       *)
(***************************************************************************)
EXTENDS Integers, Sequences, FiniteSets, TLC

(***************************************************************************)
(* Bounds of the model.                                                    *)
(***************************************************************************)
\* number of letters of a table key whose case is flipped to build an input
MaxFlips == 1
\* number of rows of an input table
MaxRows == 2

(***************************************************************************)
(* Text helpers.                                                           *)
(***************************************************************************)
None == <<>>
Some(x) == <<x>>
IsNone(o) == o = <<>>
Val(o) == o[1]

Lowers == <<"a","b","c","d","e","f","g","h","i","j","k","l","m",
            "n","o","p","q","r","s","t","u","v","w","x","y","z">>
Uppers == <<"A","B","C","D","E","F","G","H","I","J","K","L","M",
            "N","O","P","Q","R","S","T","U","V","W","X","Y","Z">>
Digits == {"0","1","2","3","4","5","6","7","8","9"}

Range(s) == {s[i] : i \in DOMAIN s}
SetMax(S) == CHOOSE x \in S : \A y \in S : y <= x
SetMin(S) == CHOOSE x \in S : \A y \in S : x <= y

IsLowerCh(c) == c \in Range(Lowers)
IsUpperCh(c) == c \in Range(Uppers)
IsSpace(c) == c \in {" ", "\t"}
\* the class [A-Za-z0-9] of re.sub in normalize_department_code
IsAlnum(c) == IsLowerCh(c) \/ IsUpperCh(c) \/ c \in Digits

LowerCh(c) == IF IsUpperCh(c) THEN Lowers[CHOOSE i \in DOMAIN Uppers : Uppers[i] = c] ELSE c
UpperCh(c) == IF IsLowerCh(c) THEN Uppers[CHOOSE i \in DOMAIN Lowers : Lowers[i] = c] ELSE c

\* str.lower() and str.upper()
Lower(s) == [i \in DOMAIN s |-> LowerCh(s[i])]
Upper(s) == [i \in DOMAIN s |-> UpperCh(s[i])]

\* str.strip(): leading and trailing whitespace removed
Strip(s) ==
  LET keep == {i \in DOMAIN s : ~IsSpace(s[i])}
  IN  IF keep = {} THEN <<>>
      ELSE LET lo == CHOOSE i \in keep : \A j \in keep : i <= j
               hi == CHOOSE i \in keep : \A j \in keep : j <= i
           IN  SubSeq(s, lo, hi)

\* re.sub(r"[^A-Za-z0-9]", "", s)
RECURSIVE StripNonAlnum(_)
StripNonAlnum(s) ==
  IF s = <<>> THEN <<>>
  ELSE IF IsAlnum(Head(s)) THEN <<Head(s)>> \o StripNonAlnum(Tail(s))
       ELSE StripNonAlnum(Tail(s))

\* the text of a character sequence, as one string
RECURSIVE Join(_)
Join(s) == IF s = <<>> THEN "" ELSE Head(s) \o Join(Tail(s))

(***************************************************************************)
(* grouping.py: the two module-level tables, in source order.              *)
(***************************************************************************)
DEPARTMENT_CODE_TO_SHEET ==
  << <<<<"G","P","E","D","U">>, <<"g","p","e","d","u">>>>,
     <<<<"G","P","H","E","A","L","T","H">>, <<"g","p","h","e","a","l","t","h">>>>,
     <<<<"G","P","G","D","E","D">>, <<"g","p","g","d","e","d">>>>,
     <<<<"G","D","S","D">>, <<"g","d","s","d">>>>,
     <<<<"G","P","S","P","O","R","T","S">>, <<"g","p","s","p","o","r","t","s">>>>,
     <<<<"G","D","A","R","D">>, <<"g","d","a","r","d">>>>,
     <<<<"G","P","T">>, <<"g","p","t">>>>,
     <<<<"G","P","D","R","T">>, <<"g","p","d","r","t">>>>,
     <<<<"G","P","E","G","O","V">>, <<"g","p","e","g","o","v">>>>,
     <<<<"G","P","D","I","D">>, <<"g","p","d","i","d">>>>,
     <<<<"G","D","H","U","S">>, <<"g","d","h","u","s">>>>,
     <<<<"G","P","D","P","R">>, <<"g","p","d","p","r">>>>,
     <<<<"G","P","S","A","S">>, <<"g","p","s","a","s">>>>,
     <<<<"C","O","G","T","A">>, <<"c","o","g","t","a">>>>,
     <<<<"G","I","F","A">>, <<"g","i","f","a">>>> >>

VARIANT_TO_CODE ==
  << <<<<"g","p","d","r","t"," ","-"," ","k">>, <<"G","P","D","R","T">>>>,
     <<<<"g","d","r","t">>, <<"G","P","D","R","T">>>>,
     <<<<"(","D","L","T","C",")">>, <<"G","P","D","R","T">>>>,
     <<<<"(","G","F","L","E","E","T",")">>, <<"G","P","D","R","T">>>>,
     <<<<"(","G","P","D","T","R",")">>, <<"G","P","D","R","T">>>>,
     <<<<"(","G","P","D","R","T">>, <<"G","P","D","R","T">>>>,
     <<<<"(","G","P","D","R","T",")",")">>, <<"G","P","D","R","T">>>>,
     <<<<"(","G","P","D","R","T","-","K",")">>, <<"G","P","D","R","T">>>>,
     <<<<"g","p"," ","h","e","a","l","t","h">>, <<"G","P","H","E","A","L","T","H">>>>,
     <<<<"(","G","P","H","E","A","L","T","H",")",")">>, <<"G","P","H","E","A","L","T","H">>>>,
     <<<<"(","G","P","H","E","A","L","T","H">>, <<"G","P","H","E","A","L","T","H">>>>,
     <<<<"(","G","P","H","E","A","L","T","H","0">>, <<"G","P","H","E","A","L","T","H">>>>,
     <<<<"(","g","p","g","h","e","a","l","t","h",")">>, <<"G","P","H","E","A","L","T","H">>>>,
     <<<<"(","g","p","h","e","a","l","t","h">>, <<"G","P","H","E","A","L","T","H">>>>,
     <<<<"(","g","p","h","e","a","l","t","h","0">>, <<"G","P","H","E","A","L","T","H">>>>,
     <<<<"G","p","h","e","a","l","t","h",")">>, <<"G","P","H","E","A","L","T","H">>>>,
     <<<<"(","G","P","H","e","a","l","t","h">>, <<"G","P","H","E","A","L","T","H">>>>,
     <<<<"(","G","P","H","e","a","l","l","t","h",")">>, <<"G","P","H","E","A","L","T","H">>>>,
     <<<<"(","G","P","H","e","a","l","t","h","}">>, <<"G","P","H","E","A","L","T","H">>>>,
     <<<<"(","G","p","H","e","a","l","t","h">>, <<"G","P","H","E","A","L","T","H">>>>,
     <<<<"b","g","h">>, <<"G","P","H","E","A","L","T","H">>>>,
     <<<<"(","G","H","e","a","l","t","h",")">>, <<"G","P","H","E","A","L","T","H">>>>,
     <<<<"(","G","P","H","E","A","L","H",")">>, <<"G","P","H","E","A","L","T","H">>>>,
     <<<<"(","G","P","G","E","A","L","T","H",")">>, <<"G","P","H","E","A","L","T","H">>>>,
     <<<<"(","g","p","h","i","e","a","l","t","h",")">>, <<"G","P","H","E","A","L","T","H">>>>,
     <<<<"e","g","o","v">>, <<"G","P","E","G","O","V">>>>,
     <<<<"E","G","O","V">>, <<"G","P","E","G","O","V">>>>,
     <<<<"D","I","D">>, <<"G","P","D","I","D">>>>,
     <<<<"(","D","I","D",")",")">>, <<"G","P","D","I","D">>>>,
     <<<<"(","G","D","I","D",")">>, <<"G","P","D","I","D">>>>,
     <<<<"G","P","E","D","U",")">>, <<"G","P","E","D","U">>>>,
     <<<<"(","G","P","E","D","U",")",")">>, <<"G","P","E","D","U">>>>,
     <<<<"(","G","D","E",")">>, <<"G","P","E","D","U">>>>,
     <<<<"(","G","D","E","D","U",")">>, <<"G","P","E","D","U">>>>,
     <<<<"(","G","D","E","D","U",")","2">>, <<"G","P","E","D","U">>>>,
     <<<<"(","G","P","E","D","U",")","1">>, <<"G","P","E","D","U">>>>,
     <<<<"[","G","P","E","D","U","]">>, <<"G","P","E","D","U">>>>,
     <<<<"(","G","P","E","D",")">>, <<"G","P","E","D","U">>>>,
     <<<<"(","M","C",")">>, <<"G","P","E","D","U">>>>,
     <<<<"(","P","E","D","U",")">>, <<"G","P","E","D","U">>>>,
     <<<<"(","G","D","A","C","E",")">>, <<"G","D","A","R","D">>>>,
     <<<<"(","G","D","A","R","D","E",")">>, <<"G","D","A","R","D">>>>,
     <<<<"(","G","D","A","R","D">>, <<"G","D","A","R","D">>>>,
     <<<<"(","G","D","E","n","v",")">>, <<"G","D","A","R","D">>>>,
     <<<<"(","G","P","D","E","D",")">>, <<"G","P","G","D","E","D">>>>,
     <<<<"(","G","P","G","D","E","D">>, <<"G","P","G","D","E","D">>>>,
     <<<<"G","P","G","D","E","D">>, <<"G","P","G","D","E","D">>>>,
     <<<<"(","G","P","R","P","R",")">>, <<"G","P","D","P","R">>>>,
     <<<<"G","P","D","P","R",")">>, <<"G","P","D","P","R">>>>,
     <<<<"(","G","P","D","P","D","R",")">>, <<"G","P","D","P","R">>>>,
     <<<<"(","G","D","H","u","S">>, <<"G","D","H","U","S">>>>,
     <<<<"(","G","D","H","S",")">>, <<"G","D","H","U","S">>>>,
     <<<<"G","P","S","A","S",")">>, <<"G","P","S","A","S">>>>,
     <<<<"(","G","P","S","A","S",")",")">>, <<"G","P","S","A","S">>>>,
     <<<<"(","G","P","s","p","o","r","t",")">>, <<"G","P","S","P","O","R","T","S">>>>,
     <<<<"g","i","f","a">>, <<"G","I","F","A">>>> >>

\* dict membership, dict lookup and dict.get on a table of <<key, value>> pairs
HasKey(table, k) == \E i \in DOMAIN table : table[i][1] = k
Lookup(table, k) == table[CHOOSE i \in DOMAIN table : table[i][1] = k][2]
Keys(table) == {table[i][1] : i \in DOMAIN table}

\* re.search(r"\(([^)]+)\)\s*$", s): the leftmost "(" from which a non-empty
\* run without ")" reaches a ")" followed only by whitespace; group(1) or None
BracketMatch(s) ==
  LET CloseOf(i) == CHOOSE j \in (i+1)..Len(s) :
                       s[j] = ")" /\ \A k \in (i+1)..(j-1) : s[k] # ")"
      Starts == {i \in DOMAIN s :
                   /\ s[i] = "("
                   /\ \E j \in (i+1)..Len(s) : s[j] = ")"
                   /\ CloseOf(i) > i + 1
                   /\ \A k \in (CloseOf(i)+1)..Len(s) : IsSpace(s[k])}
  IN  IF Starts = {} THEN None
      ELSE LET i == CHOOSE x \in Starts : \A y \in Starts : x <= y
           IN  Some(SubSeq(s, i + 1, CloseOf(i) - 1))

\* a variant of the search without the end anchor: the first group of the name
BracketMatchFirst(s) ==
  LET CloseOf(i) == CHOOSE j \in (i+1)..Len(s) :
                       s[j] = ")" /\ \A k \in (i+1)..(j-1) : s[k] # ")"
      Starts == {i \in DOMAIN s :
                   /\ s[i] = "("
                   /\ \E j \in (i+1)..Len(s) : s[j] = ")"
                   /\ CloseOf(i) > i + 1}
  IN  IF Starts = {} THEN None
      ELSE LET i == CHOOSE x \in Starts : \A y \in Starts : x <= y
           IN  Some(SubSeq(s, i + 1, CloseOf(i) - 1))

extract_bracket_text_first(name) ==
  IF name = <<>> THEN None
  ELSE LET m == BracketMatchFirst(Strip(name))
       IN  IF IsNone(m) THEN None ELSE Some(Strip(Val(m)))

\* extract_bracket_text(user_name)
extract_bracket_text(name) ==
  IF name = <<>> THEN None
  ELSE LET m == BracketMatch(Strip(name))
       IN  IF IsNone(m) THEN None ELSE Some(Strip(Val(m)))

\* a variant of normalize_department_code without the alias step
normalize_without_alias(raw_text) ==
  IF IsNone(raw_text) \/ Val(raw_text) = <<>> THEN None
  ELSE LET cleaned == Upper(StripNonAlnum(Val(raw_text)))
       IN  IF HasKey(DEPARTMENT_CODE_TO_SHEET, cleaned) THEN Some(cleaned) ELSE None

normalize_alias_lowered(raw_text) ==
  IF IsNone(raw_text) \/ Val(raw_text) = <<>> THEN None
  ELSE LET lower_raw == Strip(Lower(Val(raw_text)))
           cleaned == Upper(StripNonAlnum(Val(raw_text)))
       IN  IF HasKey(VARIANT_TO_CODE, lower_raw)
             THEN Some(Lower(Lookup(VARIANT_TO_CODE, lower_raw)))
           ELSE IF HasKey(DEPARTMENT_CODE_TO_SHEET, cleaned) THEN Some(cleaned)
           ELSE None

\* normalize_department_code(raw_text): raw_text is an Optional text
normalize_department_code(raw_text) ==
  IF IsNone(raw_text) \/ Val(raw_text) = <<>> THEN None
  ELSE LET lower_raw == Strip(Lower(Val(raw_text)))
           cleaned == Upper(StripNonAlnum(Val(raw_text)))
       IN  IF HasKey(VARIANT_TO_CODE, lower_raw)
             THEN Some(Lookup(VARIANT_TO_CODE, lower_raw))
           ELSE IF HasKey(DEPARTMENT_CODE_TO_SHEET, cleaned) THEN Some(cleaned)
           ELSE None

\* DEPARTMENT_CODE_TO_SHEET.get(code, "ungrouped"), as the sheet's name
SheetOfCode(code) ==
  IF ~IsNone(code) /\ HasKey(DEPARTMENT_CODE_TO_SHEET, Val(code))
    THEN Join(Lookup(DEPARTMENT_CODE_TO_SHEET, Val(code)))
    ELSE "ungrouped"

\* str(row.get("UserName", "")): a missing cell (NaN) prints as "nan"
StrOfCell(cell) == IF IsNone(cell) THEN <<"n","a","n">> ELSE Val(cell)

\* the sheet a UserName cell is grouped under (lines 159-162 of the loop body)
SheetOfUserName(cell) ==
  SheetOfCode(normalize_department_code(extract_bracket_text(Strip(StrOfCell(cell)))))

(***************************************************************************)
(* Tables.  A DataFrame is [columns, rows]; a row is a record of cells and *)
(* a cell is an Optional value, None being a missing cell (NaN).  The cell *)
(* of a column the table does not have is never read.  A text cell holds a *)
(* character sequence; a LastReportedDateTime cell holds                   *)
(* [kind, day, sec]: a timestamp (kind "ts": day is the date's ordinal,    *)
(* sec the time of day in seconds) or a text no date can be read from.     *)
(***************************************************************************)
HasColumn(df, c) == c \in df.columns

\* groups.setdefault(sheet_name, []).append(row) with the list replaced
\* instead of extended
GroupsAssign(gs, sheet, i) ==
  IF sheet \in DOMAIN gs THEN [gs EXCEPT ![sheet] = <<i>>] ELSE gs @@ (sheet :> <<i>>)

\* groups.setdefault(sheet_name, []).append(row); a row is kept by its index
GroupsAppend(gs, sheet, i) ==
  IF sheet \in DOMAIN gs THEN [gs EXCEPT ![sheet] = Append(@, i)] ELSE gs @@ (sheet :> <<i>>)

\* row.get("UserName", ""): the cell, or "" when the table has no such column
UserNameCell(df, i) ==
  IF HasColumn(df, "UserName") THEN df.rows[i].UserName ELSE Some(<<>>)

\* the body of the loop of group_rows_by_department for row i
GroupOneRow(df, gs, i) == GroupsAppend(gs, SheetOfUserName(UserNameCell(df, i)), i)

\* group_rows_by_department(data_frame): sheet name -> the indices of its rows
RECURSIVE GroupFrom(_, _, _)
GroupFrom(df, gs, i) ==
  IF i > Len(df.rows) THEN gs ELSE GroupFrom(df, GroupOneRow(df, gs, i), i + 1)
NoGroups == [s \in {} |-> <<>>]
group_rows_by_department(df) == GroupFrom(df, NoGroups, 1)

(***************************************************************************)
(* categorization.py                                                       *)
(***************************************************************************)
\* pd.to_datetime(cell, errors="coerce"): the timestamp, or NaT (None) for a
\* missing cell and for a text that is no date
to_datetime(cell) ==
  IF IsNone(cell) THEN None
  ELSE IF Val(cell).kind = "ts" THEN Some([day |-> Val(cell).day, sec |-> Val(cell).sec])
  ELSE None

\* df.get("LastReportedDateTime", ""), parsed: the column's cell, or the
\* scalar "" (NaT) for every row when the table has no such column
LastReportedOf(df, i) ==
  IF HasColumn(df, "LastReportedDateTime")
    THEN to_datetime(df.rows[i].LastReportedDateTime)
    ELSE None

\* Timestamp.date(): the calendar date, the time of day dropped
DateOf(ts) == ts.day

Critical ==
  [Status |-> "OutOfDate", ComplianceLevel |-> "Critical",
   ComplianceSeverity |-> "critical", ComplianceReason |-> "No check-in date"]
FullyCompliant ==
  [Status |-> "UpToDate", ComplianceLevel |-> "Fully Compliant",
   ComplianceSeverity |-> "ok", ComplianceReason |-> "Device is up to date"]
NotCompliant ==
  [Status |-> "OutOfDate", ComplianceLevel |-> "Not Compliant",
   ComplianceSeverity |-> "critical", ComplianceReason |-> "Missed check-in window"]

\* assess_row with the status of a missed window left at "UpToDate"
assess_row_mixed(last_reported, cutoff_date) ==
  IF IsNone(last_reported) THEN Critical
  ELSE IF DateOf(Val(last_reported)) >= cutoff_date THEN FullyCompliant
  ELSE [NotCompliant EXCEPT !.Status = "UpToDate"]

\* assess_row comparing with > instead of >=
assess_row_strict(last_reported, cutoff_date) ==
  IF IsNone(last_reported) THEN Critical
  ELSE IF DateOf(Val(last_reported)) > cutoff_date THEN FullyCompliant
  ELSE NotCompliant

\* assess_row without the branch for a missing date
assess_row_no_isna(last_reported, cutoff_date) ==
  IF ~IsNone(last_reported) /\ DateOf(Val(last_reported)) >= cutoff_date
    THEN FullyCompliant
    ELSE NotCompliant

\* assess_row(row), given the row's parsed LastReportedDateTime
assess_row(last_reported, cutoff_date) ==
  IF IsNone(last_reported) THEN Critical
  ELSE IF DateOf(Val(last_reported)) >= cutoff_date THEN FullyCompliant
  ELSE NotCompliant

\* categorize_dataframe(data_frame, reference_date, threshold_days).  On a
\* table without rows DataFrame.apply returns a copy of the table, which has
\* none of the four assessment columns, and reading "Status" from it raises
\* KeyError.  The result is [raised, columns, rows]; a row of the result is
\* the input row's index i with its parsed date and its assessment.
\* the columns the loop of lines 48-49 copies from assess_results
AssessColumns == {"Status", "ComplianceLevel", "ComplianceSeverity", "ComplianceReason"}

\* On a table without rows df.apply(..., result_type="expand") returns a copy of
\* the table, so assess_results["Status"] raises KeyError unless the input
\* already has the four columns.
categorize_dataframe(df, ref, threshold) ==
  LET cutoff_date == ref - threshold
  IN  IF Len(df.rows) = 0 /\ ~(AssessColumns \subseteq df.columns)
        THEN [raised |-> "KeyError", columns |-> df.columns, rows |-> <<>>]
        ELSE [raised |-> "none",
              columns |-> df.columns \cup {"LastReportedDateTime"} \cup AssessColumns,
              rows |-> [i \in DOMAIN df.rows |->
                          [src |-> df.rows[i],
                           LastReportedDateTime |-> LastReportedOf(df, i),
                           assessment |-> assess_row(LastReportedOf(df, i), cutoff_date)]]]

\* Series.astype(str): a missing cell prints as "nan"
AsTypeStr(cell) == IF IsNone(cell) THEN <<"n","a","n">> ELSE Val(cell)
\* Series.fillna("")
FillNa(cell) == IF IsNone(cell) THEN <<>> ELSE Val(cell)
\* Series.str.contains(pat) for a literal pattern
Contains(s, pat) ==
  \E i \in 0..(Len(s) - Len(pat)) : SubSeq(s, i + 1, i + Len(pat)) = pat

CountOf(S) == Cardinality(S)

\* valid_mask: DeviceName, as text and trimmed, is not blank
valid_mask(df) == {i \in DOMAIN df.rows : Strip(AsTypeStr(df.rows[i].DeviceName)) # <<>>}

\* managed_by: the tag of each row, lower-cased and trimmed; an empty Series
\* when the table has no _ManagedBy column
managed_by(df) ==
  IF HasColumn(df, "_ManagedBy")
    THEN [i \in DOMAIN df.rows |-> Strip(Lower(FillNa(df.rows[i].ManagedBy)))]
    ELSE <<>>

\* managed_by.str.contains("co-managed|comanaged").sum()
co_managed_count(df) ==
  CountOf({i \in DOMAIN managed_by(df) :
             \/ Contains(managed_by(df)[i], <<"c","o","-","m","a","n","a","g","e","d">>)
             \/ Contains(managed_by(df)[i], <<"c","o","m","a","n","a","g","e","d">>)})

\* managed_by.str.contains("intune").sum()
intune_only_count(df) ==
  CountOf({i \in DOMAIN managed_by(df) :
             Contains(managed_by(df)[i], <<"i","n","t","u","n","e">>)})

\* the SCCM count taken as the rows that are not co-managed
sccm_managed_ignoring_intune(device_count, co_managed, intune_only) ==
  device_count - co_managed

\* sccm_managed = device_count - co_managed - intune_only
sccm_managed_count(device_count, co_managed, intune_only) ==
  device_count - co_managed - intune_only

\* (data_frame["Status"] == value)[valid_mask].sum()
status_count(df, value) ==
  CountOf({i \in valid_mask(df) : df.rows[i].Status = value})

\* the rate computed without the guard on device_count: int / 0 raises
compliance_rate_unguarded(up_to_date, device_count) ==
  IF device_count # 0
    THEN [raised |-> "none", num |-> up_to_date, den |-> device_count]
    ELSE [raised |-> "ZeroDivisionError", num |-> 0, den |-> 0]

\* (up_to_date / device_count) if device_count else 0.0, as the exact ratio
\* num / den (0.0 is 0 / 1)
compliance_rate(up_to_date, device_count) ==
  IF device_count # 0
    THEN [raised |-> "none", num |-> up_to_date, den |-> device_count]
    ELSE [raised |-> "none", num |-> 0, den |-> 1]

\* tally_dataframe(data_frame) on a table of rows [DeviceName, ManagedBy, Status]
tally_dataframe(df) ==
  LET device_count == CountOf(valid_mask(df))
      co_managed == co_managed_count(df)
      intune_only == intune_only_count(df)
      up_to_date == status_count(df, "UpToDate")
      out_of_date == status_count(df, "OutOfDate")
      rate == compliance_rate(up_to_date, device_count)
  IN  [raised |-> rate.raised,
       DeviceCount |-> device_count,
       CoManaged |-> co_managed,
       Intune |-> intune_only,
       SccmManaged |-> sccm_managed_count(device_count, co_managed, intune_only),
       UpToDate |-> up_to_date,
       OutOfDate |-> out_of_date,
       Compliance |-> [num |-> rate.num, den |-> rate.den]]

\* the categorized table as tally_dataframe reads it
TallyView(cat) ==
  [columns |-> cat.columns,
   rows |-> [i \in DOMAIN cat.rows |->
               [DeviceName |-> cat.rows[i].src.DeviceName,
                ManagedBy |-> cat.rows[i].src.ManagedBy,
                Status |-> cat.rows[i].assessment.Status]]]
(***************************************************************************)
(* reporting.py: the folder of a department report and the formats of the  *)
(* Compliance cell.  A date is [year, month, day]; a path is the sequence  *)
(* of the components os.path.join puts together.                           *)
(***************************************************************************)
DigitChars == <<"0", "1", "2", "3", "4", "5", "6", "7", "8", "9">>
\* str(n) for n >= 0
RECURSIVE Decimal(_)
Decimal(n) ==
  IF n < 10 THEN <<DigitChars[n + 1]>> ELSE Decimal(n \div 10) \o <<DigitChars[(n % 10) + 1]>>
\* the number in at least w digits, zeros in front
RECURSIVE ZeroPad(_, _)
ZeroPad(n, w) ==
  IF Len(Decimal(n)) >= w THEN Decimal(n) ELSE <<"0">> \o ZeroPad(n, w - 1)

Date(y, m, d) == [year |-> y, month |-> m, day |-> d]
\* date.isoformat()
isoformat(d) ==
  Join(ZeroPad(d.year, 4) \o <<"-">> \o ZeroPad(d.month, 2) \o <<"-">> \o ZeroPad(d.day, 2))
MonthNames ==
  <<"January", "February", "March", "April", "May", "June", "July", "August",
    "September", "October", "November", "December">>
MonthAbbreviations ==
  <<"Jan", "Feb", "Mar", "Apr", "May", "Jun", "Jul", "Aug", "Sep", "Oct", "Nov", "Dec">>
\* report_date.strftime("%B") and report_date.strftime("%d-%b")
strftime_B(d) == MonthNames[d.month]
strftime_d_b(d) == Join(ZeroPad(d.day, 2) \o <<"-">>) \o MonthAbbreviations[d.month]

fy_start(report_date) ==
  IF report_date.month >= 4 THEN report_date.year ELSE report_date.year - 1
financial_year(report_date) ==
  Join(Decimal(fy_start(report_date)) \o <<"-">> \o Decimal(fy_start(report_date) + 1))

quarter_calendar(month) ==
  IF 1 <= month /\ month <= 3 THEN "Q1"
  ELSE IF 4 <= month /\ month <= 6 THEN "Q2"
  ELSE IF 7 <= month /\ month <= 9 THEN "Q3"
  ELSE "Q4"
quarter(month) ==
  IF 4 <= month /\ month <= 6 THEN "Q1"
  ELSE IF 7 <= month /\ month <= 9 THEN "Q2"
  ELSE IF 10 <= month /\ month <= 12 THEN "Q3"
  ELSE "Q4"

\* path_parts, which os.path.join joins in this order
path_parts(root_directory, department, report_date) ==
  root_directory \o
  <<department, financial_year(report_date), quarter(report_date.month),
    strftime_B(report_date), isoformat(report_date)>>

\* os.makedirs(path, exist_ok): the path and the folders above it are created;
\* a path that is already a directory raises unless exist_ok
makedirs(dirs, path, exist_ok) ==
  IF path \in dirs /\ ~exist_ok
    THEN [raised |-> "FileExistsError", directories |-> dirs]
    ELSE [raised |-> "none",
          directories |-> dirs \cup {SubSeq(path, 1, k) : k \in 1..Len(path)}]

\* _nested_report_folder: the path it returns, or the exception of makedirs,
\* and the directories it leaves
_nested_report_folder(dirs, root_directory, department, report_date) ==
  LET p == path_parts(root_directory, department, report_date)
      made == makedirs(dirs, p, TRUE)
  IN  [raised |-> made.raised,
       full_path |-> IF made.raised = "none" THEN p ELSE <<>>,
       directories |-> made.directories]

\* the file name of a department workbook (line 277)
report_filename(dept, report_date) ==
  dept \o "_Report_" \o isoformat(report_date) \o ".xlsx"

\* a Compliance value against a number of tenths: value >= t/10, value > t/10
AtLeastTenths(value, t) == value.num * 10 >= t * value.den
MoreThanTenths(value, t) == value.num * 10 > t * value.den

\* _write_summary_table, lines 122-132: float(None) raises, the cell keeps cell_fmt
master_compliance_fmt_open(value) ==
  IF IsNone(value) THEN "cell_fmt"
  ELSE IF MoreThanTenths(Val(value), 8) THEN "green_fmt"
  ELSE IF MoreThanTenths(Val(value), 7) THEN "yellow_fmt"
  ELSE "red_fmt"
master_compliance_fmt(value) ==
  IF IsNone(value) THEN "cell_fmt"
  ELSE IF AtLeastTenths(Val(value), 8) THEN "green_fmt"
  ELSE IF MoreThanTenths(Val(value), 7) THEN "yellow_fmt"
  ELSE "red_fmt"

\* write_department_reports, lines 379-392
dept_compliance_fmt(value) ==
  IF ~IsNone(value) /\ AtLeastTenths(Val(value), 8) THEN "green_fmt"
  ELSE IF ~IsNone(value) /\ MoreThanTenths(Val(value), 7) /\ ~AtLeastTenths(Val(value), 8)
    THEN "yellow_fmt"
  ELSE IF ~IsNone(value) /\ ~MoreThanTenths(Val(value), 7) THEN "red_fmt"
  ELSE "normal_fmt"

\* bg_color of the formats (lines 96-105 and 324-352)
bg_color(fmt) ==
  CASE fmt = "green_fmt" -> "#00b050"
    [] fmt = "yellow_fmt" -> "#ffff00"
    [] fmt = "red_fmt" -> "#ff0000"
    [] OTHER -> "none"


(***************************************************************************)
(* main.py: helpers of the orchestrator.                                   *)
(***************************************************************************)
ToSet(s) == {s[i] : i \in DOMAIN s}
InSeq(x, s) == \E i \in DOMAIN s : s[i] = x

\* the keys of a dict built from a list, in insertion order
RECURSIVE Dedupe(_)
Dedupe(s) ==
  IF s = <<>> THEN <<>>
  ELSE LET rest == Dedupe(SubSeq(s, 1, Len(s) - 1))
       IN  IF InSeq(s[Len(s)], rest) THEN rest ELSE Append(rest, s[Len(s)])

WithUngroupedAgain(order) == Append(order, "ungrouped")
\* "ungrouped" appended to a list of sheet names that does not hold it
WithUngrouped(order) ==
  IF InSeq("ungrouped", order) THEN order ELSE Append(order, "ungrouped")

DigitValue(c) ==
  CASE c = "0" -> 0 [] c = "1" -> 1 [] c = "2" -> 2 [] c = "3" -> 3 [] c = "4" -> 4
    [] c = "5" -> 5 [] c = "6" -> 6 [] c = "7" -> 7 [] c = "8" -> 8 [] c = "9" -> 9
RECURSIVE NumberOf(_)
NumberOf(s) ==
  IF s = <<>> THEN 0 ELSE 10 * NumberOf(SubSeq(s, 1, Len(s) - 1)) + DigitValue(s[Len(s)])
AllDigits(s) == \A i \in DOMAIN s : s[i] \in Digits

IsLeap(y) == y % 4 = 0 /\ (y % 100 # 0 \/ y % 400 = 0)
DaysInMonth(y, m) ==
  IF m = 2 THEN (IF IsLeap(y) THEN 29 ELSE 28)
  ELSE IF m \in {4, 6, 9, 11} THEN 30 ELSE 31
RECURSIVE DaysBeforeMonth(_, _)
DaysBeforeMonth(y, m) ==
  IF m = 1 THEN 0 ELSE DaysBeforeMonth(y, m - 1) + DaysInMonth(y, m - 1)
\* date.toordinal(): the day number, 0001-01-01 being day 1
ToOrdinal(y, m, d) ==
  (y - 1) * 365 + (y - 1) \div 4 - (y - 1) \div 100 + (y - 1) \div 400
    + DaysBeforeMonth(y, m) + d

\* datetime.strptime(text, "%Y-%m-%d").date(): the date's ordinal, or None
\* when strptime raises ValueError (four digits, "-", one or two digits, "-",
\* one or two digits, naming a day of the calendar)
strptime_date(text) ==
  LET dashes == {i \in DOMAIN text : text[i] = "-"}
  IN  IF Cardinality(dashes) # 2 THEN None
      ELSE LET d1 == SetMin(dashes)
               d2 == SetMax(dashes)
               ys == SubSeq(text, 1, d1 - 1)
               ms == SubSeq(text, d1 + 1, d2 - 1)
               ds == SubSeq(text, d2 + 1, Len(text))
           IN  IF ~(Len(ys) = 4 /\ Len(ms) \in {1, 2} /\ Len(ds) \in {1, 2}
                     /\ AllDigits(ys) /\ AllDigits(ms) /\ AllDigits(ds))
                 THEN None
               ELSE LET y == NumberOf(ys)
                        m == NumberOf(ms)
                        d == NumberOf(ds)
                    IN  IF y >= 1 /\ m \in 1..12 /\ d \in 1..DaysInMonth(y, m)
                          THEN Some(ToOrdinal(y, m, d))
                          ELSE None

\* DISPLAY_MAP.get(code, code)
DISPLAY_MAP ==
  [gdard |-> "AGRIC", cogta |-> "COGTA", gpsas |-> "COMMSAFETY", gpgded |-> "DED",
   gpdid |-> "DID", gpedu |-> "EDUCATION", gpegov |-> "EGOV", gdhus |-> "GDHUS",
   gphealth |-> "HEALTH", gpdpr |-> "OOP", gdsd |-> "SOCDEV", gpsports |-> "SPORTS",
   gpdrt |-> "TRANSPORT", gpt |-> "TREASURY", ungrouped |-> "ungrouped"]
DisplayName(dept) == IF dept \in DOMAIN DISPLAY_MAP THEN DISPLAY_MAP[dept] ELSE dept

\* the department filter's values that are neither a template sheet nor "ungrouped"
InvalidDepartments(department, order) ==
  SelectSeq(department, LAMBDA dept : ~InSeq(dept, order) /\ dept # "ungrouped")

\* grouped_sheets.get(dept_code, pd.DataFrame(columns=data_frame.columns))
ChunkOf(df, gs, dept) ==
  [columns |-> df.columns,
   rows |-> IF dept \in DOMAIN gs THEN [k \in DOMAIN gs[dept] |-> df.rows[gs[dept][k]]]
            ELSE <<>>]

\* {dept_code: grouped_sheets.get(dept_code, ...) for dept_code in departments}
UnenrichedSheets(df, gs, depts) ==
  [keys |-> Dedupe(depts),
   frames |-> [dept \in ToSet(depts) |-> ChunkOf(df, gs, dept)]]

\* lines 233-240: what the handler of a failed enrichment leaves in all_sheets
FallbackSheetsEmpty(df, gs, depts) ==
  [keys |-> <<>>, frames |-> [dept \in {} |-> ChunkOf(df, gs, dept)]]
FallbackSheets(df, gs, depts) == UnenrichedSheets(df, gs, depts)

\* enrich_all_sheets_with_ad, when it returns: every table that has rows and a
\* DeviceName column gains the three directory columns, rows unchanged
EnrichedFrame(f) ==
  IF Len(f.rows) = 0 \/ ~HasColumn(f, "DeviceName") THEN f
  ELSE [f EXCEPT !.columns = @ \cup {"LastLogonDate", "OperatingSystem", "OUName"}]
SomeDeviceName(sheets) ==
  \E dept \in DOMAIN sheets.frames :
    /\ HasColumn(sheets.frames[dept], "DeviceName")
    /\ \E i \in DOMAIN sheets.frames[dept].rows :
         ~IsNone(sheets.frames[dept].rows[i].DeviceName)
EnrichedSheets(sheets) ==
  IF ~SomeDeviceName(sheets) THEN sheets
  ELSE [sheets EXCEPT !.frames = [dept \in DOMAIN sheets.frames |-> EnrichedFrame(sheets.frames[dept])]]

\* lines 250-259: every table categorized, in the dict's order
CategorizedSheets(sheets, ref, threshold) ==
  [sheets EXCEPT !.frames =
     [dept \in DOMAIN sheets.frames |-> categorize_dataframe(sheets.frames[dept], ref, threshold)]]
\* some table makes categorize_dataframe raise
CategorizeRaises(sheets, ref, threshold) ==
  \E dept \in DOMAIN sheets.frames :
    categorize_dataframe(sheets.frames[dept], ref, threshold).raised # "none"

RequiredColumns == {"DeviceName", "_ManagedBy", "LastReportedDateTime"}
\* summary_rows: one tally per categorized table that has the required columns
RECURSIVE SummaryRows(_, _)
SummaryRows(cats, keys) ==
  IF keys = <<>> THEN <<>>
  ELSE LET dept == keys[Len(keys)]
           before == SummaryRows(cats, SubSeq(keys, 1, Len(keys) - 1))
       IN  IF RequiredColumns \subseteq cats.frames[dept].columns
             THEN Append(before, [Department |-> dept,
                                  tally |-> tally_dataframe(TallyView(cats.frames[dept]))])
             ELSE before

\* summary_df: the Department column mapped through DISPLAY_MAP (lines 285-288)
SummaryDf(rows) ==
  [i \in DOMAIN rows |-> [rows[i] EXCEPT !.Department = DisplayName(@)]]

\* filtered_summary_df (lines 307-311)
FilteredSummary(summary, filter) ==
  SelectSeq(summary, LAMBDA r : \E i \in DOMAIN filter : DisplayName(filter[i]) = r.Department)

\* filtered_all_sheets (lines 302-306)
FilteredSheets(sheets, filter) ==
  [keys |-> SelectSeq(Dedupe(filter), LAMBDA c : c \in DOMAIN sheets.frames),
   frames |-> [c \in ToSet(filter) \cap DOMAIN sheets.frames |-> sheets.frames[c]]]

(***************************************************************************)
(* reporting.py: what the two writers put on disk.                         *)
(***************************************************************************)
\* all_sheets.get(dept_code, pd.DataFrame()).empty
SheetIsEmpty(sheets, dept) ==
  dept \notin DOMAIN sheets.frames \/ Len(sheets.frames[dept].rows) = 0

\* write_full_report: the workbook's department sheets, in order, and Summary
\* with its date label (line 108) and the format of each Compliance cell
write_full_report(sheets, summary, order, include_ungrouped, report_date) ==
  LET sheet_order == IF include_ungrouped THEN WithUngrouped(order) ELSE order
  IN  [sheets |-> [i \in DOMAIN sheet_order |->
                     [dept |-> sheet_order[i],
                      name |-> DisplayName(sheet_order[i]),
                      content |-> IF SheetIsEmpty(sheets, sheet_order[i])
                                    THEN "No data for this department."
                                    ELSE "table",
                      rows |-> IF SheetIsEmpty(sheets, sheet_order[i])
                                 THEN <<>>
                                 ELSE sheets.frames[sheet_order[i]].rows]],
       summary |-> summary,
       formats |-> [i \in DOMAIN summary |->
                      master_compliance_fmt(Some(summary[i].tally.Compliance))],
       report_date |-> report_date,
       date_label |-> strftime_d_b(report_date)]

\* the display names of write_department_reports, which has no "ungrouped" entry
DeptDisplayName(dept) ==
  IF dept \in DOMAIN DISPLAY_MAP /\ dept # "ungrouped" THEN DISPLAY_MAP[dept] ELSE dept

\* the summary row write_department_reports finds for a department
DeptSummaryRow(summary, dept) ==
  LET by_display == SelectSeq(summary, LAMBDA r : r.Department = DeptDisplayName(dept))
      by_code == SelectSeq(summary, LAMBDA r : r.Department = dept)
  IN  IF by_display # <<>> THEN Some(by_display[1])
      ELSE IF by_code # <<>> THEN Some(by_code[1])
      ELSE None

\* write_department_reports: one workbook per department, in order, each in
\* its nested folder
write_department_reports(sheets, summary, order, output_root, include_ungrouped, report_date) ==
  LET depts == IF include_ungrouped THEN WithUngrouped(order) ELSE order
  IN  [i \in DOMAIN depts |->
         [dept |-> depts[i],
          folder |-> path_parts(output_root, depts[i], report_date),
          filename |-> report_filename(depts[i], report_date),
          content |-> IF SheetIsEmpty(sheets, depts[i])
                        THEN "No data for this department."
                        ELSE "table",
          summary |-> DeptSummaryRow(summary, depts[i]),
          fmt |-> IF IsNone(DeptSummaryRow(summary, depts[i])) THEN "none"
                  ELSE dept_compliance_fmt(
                         Some(Val(DeptSummaryRow(summary, depts[i])).tally.Compliance)),
          date_label |-> strftime_d_b(report_date)]]

\* the directories the calls of _nested_report_folder leave (line 276)
RECURSIVE ReportFolders(_, _, _, _)
ReportFolders(dirs, output_root, depts, report_date) ==
  IF depts = <<>> THEN dirs
  ELSE ReportFolders(
         _nested_report_folder(dirs, output_root, Head(depts), report_date).directories,
         output_root, Tail(depts), report_date)

(***************************************************************************)
(* emailer.py, as main calls it.                                           *)
(***************************************************************************)
\* send_email's parameters without a default, and the keywords main passes
SendEmailRequired ==
  {"smtp_server", "smtp_port", "from_addr", "to_addrs", "cc_addrs", "subject", "body"}
SendEmailPassed ==
  {"smtp_server", "smtp_port", "from_addr", "to_addrs", "subject", "body",
   "attachments", "smtp_user", "smtp_password"}

\* the outcome of the call of lines 377-387: TypeError when a required
\* parameter is not passed, else what the SMTP step does
send_email_outcome(smtp) ==
  IF ~(SendEmailRequired \subseteq SendEmailPassed) THEN "TypeError" ELSE smtp

(***************************************************************************)
(* State.                                                                  *)
(***************************************************************************)
VARIABLES
  pc,             \* the position of the running function
  call,           \* the function under execution
  user_name,      \* extract_bracket_text's argument
  raw,            \* extract_bracket_text's result, normalize_department_code's argument
  code,           \* normalize_department_code's result
  sheet_name,     \* the sheet the name is grouped under
  data_frame,     \* the input table
  row_i,          \* group_rows_by_department: the index of the next row
  groups,         \* group_rows_by_department: sheet name -> indices of its rows
  reference_date, \* categorize_dataframe's reference date, as a date ordinal
  threshold_days, \* categorize_dataframe's threshold
  categorized,    \* categorize_dataframe's result
  tally_input,    \* tally_dataframe's argument
  tally,          \* tally_dataframe's result
  args,           \* main: the parsed command line
  template,       \* the template workbook's sheet names, None when the file is missing
  grouped_sheets, \* main: group_rows_by_department's result
  sheet_order,    \* main: the sheet order in use
  departments,    \* main: the departments to process
  all_sheets,     \* main: department -> table, with the dict's key order
  summary_df,     \* main: the summary table
  master_report,  \* the master workbook on disk, None before it is written
  department_reports, \* the per-department workbooks on disk
  dept_summaries, \* main: the (department, path) list of the workbooks written
  email_map,      \* main: the recipient mapping read from the JSON file
  email_i,        \* main: the index of the next department of the email loop
  emails,         \* the calls of send_email and their outcomes
  fatal,          \* the fatal condition the run stopped on, "none" otherwise
  exit_status,    \* the process exit status, None while the run lasts
  enrichment,     \* main: "off", or how enrich_all_sheets_with_ad ended
  emails_config,  \* what main found at the recipients file's path
  directories,    \* the directories on disk under the output root
  folder_args,    \* _nested_report_folder's arguments
  full_path,      \* _nested_report_folder's result
  compliance,     \* the Compliance value of a summary row, as a fraction
  master_fmt,     \* the cell format _write_summary_table chooses for it
  dept_fmt,       \* the cell format write_department_reports chooses for it
  message,        \* Spinner: self.message
  stop_event,     \* Spinner: self._stop_event is set
  spinner_cycle,  \* Spinner: how far self._spinner_cycle has advanced, modulo its length
  spin_pc,        \* Spinner: the position of the thread that runs _spin
  body,           \* how the body of the with statement ended
  terminal,       \* the text on the terminal line
  cache_file,     \* the content of CACHE_FILE, None when the file is missing
  runs,           \* the number of calls of query_ad_computers so far
  ldap_config,    \* query_ad_computers: the four LDAP settings are present
  computer_names, \* query_ad_computers's argument
  cache,          \* query_ad_computers: the cache dict
  to_query,       \* query_ad_computers: the sorted names to look up
  batch_i,        \* query_ad_computers: the index of the next batch
  unmatched,      \* query_ad_computers: the unmatched list
  ad_result,      \* query_ad_computers's return value, None while it runs
  cache_before,   \* the cache file's content when the call started
  queried,        \* the names the call has sent to the directory
  matched         \* the names the call has found in the directory

classifyVars == <<call, user_name, raw, code, sheet_name>>
groupVars == <<row_i, groups>>
categorizeVars == <<reference_date, threshold_days, categorized>>
tallyVars == <<tally_input, tally>>
mainVars ==
  <<args, template, grouped_sheets, sheet_order, departments, all_sheets, summary_df,
    master_report, department_reports, dept_summaries, email_map, email_i, emails,
    fatal, exit_status, enrichment, emails_config, directories>>
folderVars == <<folder_args, full_path>>
colorVars == <<compliance, master_fmt, dept_fmt>>
spinnerVars == <<message, stop_event, spinner_cycle, spin_pc, body, terminal>>
cacheVars ==
  <<cache_file, runs, ldap_config, computer_names, cache, to_query, batch_i, unmatched,
    ad_result, cache_before, queried, matched>>
utilVars == <<spinnerVars, cacheVars>>
vars ==
  <<pc, classifyVars, data_frame, groupVars, categorizeVars, tallyVars, mainVars,
    folderVars, colorVars, utilVars>>

EmptyFrame == [columns |-> {}, rows |-> <<>>]
NoResult == [raised |-> "none", columns |-> {}, rows |-> <<>>]
NoTally ==
  [raised |-> "none", DeviceCount |-> 0, CoManaged |-> 0, Intune |-> 0, SccmManaged |-> 0,
   UpToDate |-> 0, OutOfDate |-> 0, Compliance |-> [num |-> 0, den |-> 1]]

ClassifyIdle == call = "none" /\ user_name = <<>> /\ raw = None /\ code = None /\ sheet_name = ""
GroupIdle == row_i = 0 /\ groups = NoGroups
CategorizeIdle == reference_date = 0 /\ threshold_days = 0 /\ categorized = NoResult
TallyIdle == tally_input = EmptyFrame /\ tally = NoTally
NoSheets == [keys |-> <<>>, frames |-> [d \in {} |-> EmptyFrame]]
NoArgs ==
  [date |-> <<>>, threshold_days |-> 0, department |-> None, master_only |-> FALSE,
   send_emails |-> FALSE, enrich_ad |-> FALSE, output_directory |-> <<>>]
MainStart ==
  /\ template = None
  /\ grouped_sheets = NoGroups
  /\ sheet_order = <<>>
  /\ departments = <<>>
  /\ all_sheets = NoSheets
  /\ summary_df = <<>>
  /\ master_report = None
  /\ department_reports = <<>>
  /\ dept_summaries = <<>>
  /\ email_map = None
  /\ email_i = 0
  /\ emails = <<>>
  /\ fatal = "none"
  /\ exit_status = None
  /\ enrichment = "off"
  /\ emails_config = "unread"
  /\ directories = {}
MainIdle == args = NoArgs /\ MainStart
NoDate == [year |-> 1, month |-> 1, day |-> 1]
NoFolderArgs == [root_directory |-> <<>>, department |-> "", report_date |-> NoDate]
FolderIdle == folder_args = NoFolderArgs /\ full_path = <<>>
ColorIdle == compliance = None /\ master_fmt = "none" /\ dept_fmt = "none"
SpinnerIdle ==
  /\ message = <<>> /\ stop_event = FALSE /\ spinner_cycle = 0
  /\ spin_pc = "not started" /\ body = "none" /\ terminal = <<>>
CacheIdle ==
  /\ cache_file = None /\ runs = 0 /\ ldap_config = FALSE /\ computer_names = <<>>
  /\ cache = <<>> /\ to_query = <<>> /\ batch_i = 0 /\ unmatched = <<>>
  /\ ad_result = None /\ cache_before = <<>> /\ queried = {} /\ matched = {}
UtilIdle == SpinnerIdle /\ CacheIdle

\* all sequences over S of length at most n
SeqsUpTo(S, n) == UNION {[1..k -> S] : k \in 0..n}
Row(dn, un, mb, lr) ==
  [DeviceName |-> dn, UserName |-> un, ManagedBy |-> mb, LastReportedDateTime |-> lr]

(***************************************************************************)
(* Inputs of the classifier: the keys of the two tables and a few other    *)
(* texts, in several letter casings, bare and wrapped into user names.     *)
(***************************************************************************)
SwapCh(c) == IF IsUpperCh(c) THEN LowerCh(c) ELSE UpperCh(c)
Flip(w, P) == [i \in DOMAIN w |-> IF i \in P THEN SwapCh(w[i]) ELSE w[i]]
Casings(w) ==
  {w, Lower(w), Upper(w)}
    \cup {Flip(w, P) : P \in {Q \in SUBSET (DOMAIN w) : Cardinality(Q) <= MaxFlips}}

OtherTexts ==
  { <<"X","X","X","X">>, <<" ">>, <<"G","P","T"," ">>, <<" ","b","g","h">>,
    <<"x","(","G","P","T">>, <<"g",".","p","-","t">>, <<"G","P","E","D","U","1">> }

KeyTexts == Keys(VARIANT_TO_CODE) \cup Keys(DEPARTMENT_CODE_TO_SHEET) \cup OtherTexts
RawTexts == UNION {Casings(w) : w \in KeyTexts} \cup {<<>>}

Jane == <<"J","a","n","e"," ">>
Wrappings(t) ==
  { t,
    Jane \o t,
    Jane \o <<"(">> \o t \o <<")">>,
    Jane \o <<"(">> \o t \o <<")", " ">>,
    Jane \o <<"(", "x", ")", " ", "(">> \o t \o <<")">>,
    Jane \o <<"(">> \o t \o <<")", " ", "x">> }
UserNames == UNION {Wrappings(t) : t \in RawTexts}

(***************************************************************************)
(* The classifier, one function per step, as group_rows_by_department      *)
(* chains them for one row; normalize_department_code is also entered      *)
(* directly with a raw text.                                               *)
(***************************************************************************)
InitClassify ==
  /\ \/ /\ call = "classify"
        /\ user_name \in UserNames
        /\ raw = None
        /\ pc = "extract"
     \/ /\ call = "normalize"
        /\ user_name = <<>>
        /\ raw \in {Some(t) : t \in RawTexts} \cup {None}
        /\ pc = "normalize"
  /\ code = None
  /\ sheet_name = ""
  /\ data_frame = EmptyFrame
  /\ GroupIdle /\ CategorizeIdle /\ TallyIdle /\ MainIdle /\ FolderIdle /\ ColorIdle /\ UtilIdle

ExtractBracketText ==
  /\ pc = "extract"
  /\ raw' = extract_bracket_text(Strip(user_name))
  /\ pc' = "normalize"
  /\ UNCHANGED <<call, user_name, code, sheet_name, data_frame, groupVars, categorizeVars, tallyVars, mainVars, folderVars, colorVars, utilVars>>

NormalizeDepartmentCode ==
  /\ pc = "normalize"
  /\ code' = normalize_department_code(raw)
  /\ pc' = IF call = "classify" THEN "lookup" ELSE "normalized"
  /\ UNCHANGED <<call, user_name, raw, sheet_name, data_frame, groupVars, categorizeVars, tallyVars, mainVars, folderVars, colorVars, utilVars>>

LookupSheet ==
  /\ pc = "lookup"
  /\ sheet_name' = SheetOfCode(code)
  /\ pc' = "classified"
  /\ UNCHANGED <<call, user_name, raw, code, data_frame, groupVars, categorizeVars, tallyVars, mainVars, folderVars, colorVars, utilVars>>

\* normalize_department_code called on the code it has returned
NormalizeResult ==
  /\ pc = "normalized"
  /\ ~IsNone(code)
  /\ raw' = code
  /\ code' = normalize_department_code(code)
  /\ pc' = "normalized again"
  /\ UNCHANGED <<call, user_name, sheet_name, data_frame, groupVars, categorizeVars, tallyVars, mainVars, folderVars, colorVars, utilVars>>

NextClassify ==
  ExtractBracketText \/ NormalizeDepartmentCode \/ LookupSheet \/ NormalizeResult

SpecClassify == InitClassify /\ [][NextClassify]_vars

(***************************************************************************)
(* group_rows_by_department, one row of the loop per step.                 *)
(***************************************************************************)
Text_A_GPEDU == <<"A"," ","(","G","P","E","D","U",")">>
Text_D_gpedu == <<"D"," ","(","g","p","e","d","u",")">>
Text_B_gp_health == <<"B"," ","(","g","p"," ","h","e","a","l","t","h",")">>
Text_C == <<"C">>
Text_E_XXXX == <<"E"," ","(","X","X","X","X",")">>

GroupNameCells ==
  {Some(Text_A_GPEDU), Some(Text_D_gpedu), Some(Text_B_gp_health), Some(Text_C),
   Some(Text_E_XXXX), None}
GroupFrames(n) ==
  {[columns |-> {"UserName"}, rows |-> rs] :
     rs \in SeqsUpTo({Row(None, un, None, None) : un \in GroupNameCells}, n)}
  \cup {[columns |-> {}, rows |-> rs] :
     rs \in SeqsUpTo({Row(None, None, None, None)}, n)}

InitGroup ==
  /\ pc = "group"
  /\ data_frame \in GroupFrames(MaxRows)
  /\ row_i = 1
  /\ groups = NoGroups
  /\ ClassifyIdle /\ CategorizeIdle /\ TallyIdle /\ MainIdle /\ FolderIdle /\ ColorIdle /\ UtilIdle

GroupRow ==
  /\ pc = "group"
  /\ row_i <= Len(data_frame.rows)
  /\ groups' = GroupOneRow(data_frame, groups, row_i)
  /\ row_i' = row_i + 1
  /\ UNCHANGED <<pc, classifyVars, data_frame, categorizeVars, tallyVars, mainVars, folderVars, colorVars, utilVars>>

GroupReturn ==
  /\ pc = "group"
  /\ row_i > Len(data_frame.rows)
  /\ pc' = "grouped"
  /\ UNCHANGED <<classifyVars, data_frame, groupVars, categorizeVars, tallyVars, mainVars, folderVars, colorVars, utilVars>>

NextGroup == GroupRow \/ GroupReturn
SpecGroup == InitGroup /\ [][NextGroup]_vars

(***************************************************************************)
(* categorize_dataframe on tables whose dates lie around the cutoff.       *)
(***************************************************************************)
\* the CLI's default threshold, and 2024-06-15 as a date ordinal
DefaultThresholdDays == 7
SampleReferenceDate == ToOrdinal(2024, 6, 15)

NoDateText == [kind |-> "text", day |-> 0, sec |-> 0]
TimestampCell(d, s) == Some([kind |-> "ts", day |-> d, sec |-> s])
DateCells(ref, threshold) ==
  {None, Some(NoDateText)}
    \cup {TimestampCell(d, s) :
            d \in {ref - threshold - 1, ref - threshold, ref - threshold + 1, ref},
            s \in {0, 86399}}
CategorizeFrames(ref, threshold, n) ==
  {[columns |-> {"LastReportedDateTime"}, rows |-> rs] :
     rs \in SeqsUpTo({Row(None, None, None, lr) : lr \in DateCells(ref, threshold)}, n)}
  \cup {[columns |-> {}, rows |-> rs] :
     rs \in SeqsUpTo({Row(None, None, None, None)}, n)}

InitCategorize ==
  /\ pc = "categorize"
  /\ reference_date \in {SampleReferenceDate, SampleReferenceDate + 1}
  /\ threshold_days \in {0, 1, DefaultThresholdDays}
  /\ data_frame \in CategorizeFrames(reference_date, threshold_days, MaxRows)
  /\ categorized = NoResult
  /\ ClassifyIdle /\ GroupIdle /\ TallyIdle /\ MainIdle /\ FolderIdle /\ ColorIdle /\ UtilIdle

CategorizeDataframe ==
  /\ pc = "categorize"
  /\ categorized' = categorize_dataframe(data_frame, reference_date, threshold_days)
  /\ pc' = IF categorized'.raised = "none" THEN "categorized" ELSE "raised"
  /\ UNCHANGED <<classifyVars, data_frame, groupVars, reference_date, threshold_days, tallyVars, mainVars, folderVars, colorVars, utilVars>>

NextCategorize == CategorizeDataframe
SpecCategorize == InitCategorize /\ [][NextCategorize]_vars

(***************************************************************************)
(* tally_dataframe on tables of [DeviceName, ManagedBy, Status] rows.      *)
(***************************************************************************)
DeviceNameCells == {Some(<<>>), Some(<<" ">>), Some(<<"P","C","1">>)}
ManagedByCells ==
  {None, Some(<<"I","n","t","u","n","e"," ">>), Some(<<"C","o","-","m","a","n","a","g","e","d">>),
   Some(<<"C","o","m","a","n","a","g","e","d"," ","(","I","n","t","u","n","e",")">>)}
StatusValues == {"UpToDate", "OutOfDate", ""}
TallyRow(dn, mb, st) == [DeviceName |-> dn, ManagedBy |-> mb, Status |-> st]
TallyFrames(n) ==
  {[columns |-> {"DeviceName", "_ManagedBy", "Status"}, rows |-> rs] :
     rs \in SeqsUpTo({TallyRow(dn, mb, st) :
                        dn \in DeviceNameCells, mb \in ManagedByCells, st \in StatusValues},
                     n)}
  \cup {[columns |-> {"DeviceName", "Status"}, rows |-> rs] :
     rs \in SeqsUpTo({TallyRow(dn, None, st) :
                        dn \in DeviceNameCells, st \in StatusValues}, n)}

InitTally ==
  /\ pc = "tally"
  /\ tally_input \in TallyFrames(MaxRows)
  /\ tally = NoTally
  /\ data_frame = EmptyFrame
  /\ ClassifyIdle /\ GroupIdle /\ CategorizeIdle /\ MainIdle /\ FolderIdle /\ ColorIdle /\ UtilIdle

TallyDataframe ==
  /\ pc = "tally"
  /\ tally' = tally_dataframe(tally_input)
  /\ pc' = IF tally'.raised = "none" THEN "tallied" ELSE "raised"
  /\ UNCHANGED <<classifyVars, data_frame, groupVars, categorizeVars, tally_input, mainVars, folderVars, colorVars, utilVars>>

NextTally == TallyDataframe
SpecTally == InitTally /\ [][NextTally]_vars

(***************************************************************************)
(* _nested_report_folder, called twice with the same arguments.            *)
(***************************************************************************)
FolderDates == {Date(y, m, d) : y \in {2024, 2025}, m \in 1..12, d \in {1, 15, 28}}
FolderArgs ==
  [root_directory : {<<"out">>}, department : {"gpedu"}, report_date : FolderDates]

InitFolder ==
  /\ pc = "folder"
  /\ folder_args \in FolderArgs
  /\ full_path = <<>>
  /\ data_frame = EmptyFrame
  /\ ClassifyIdle /\ GroupIdle /\ CategorizeIdle /\ TallyIdle /\ MainIdle /\ ColorIdle /\ UtilIdle

\* the variables of main but the directories on disk
mainVarsOffDisk ==
  <<args, template, grouped_sheets, sheet_order, departments, all_sheets, summary_df,
    master_report, department_reports, dept_summaries, email_map, email_i, emails,
    fatal, exit_status, enrichment, emails_config>>

\* one call: lines 19-42
CallNestedReportFolder(from, to) ==
  /\ pc = from
  /\ LET result == _nested_report_folder(directories, folder_args.root_directory,
                                         folder_args.department, folder_args.report_date)
     IN  /\ full_path' = result.full_path
         /\ directories' = result.directories
         /\ pc' = IF result.raised = "none" THEN to ELSE "raised"
  /\ UNCHANGED <<classifyVars, data_frame, groupVars, categorizeVars, tallyVars,
                 mainVarsOffDisk, folder_args, colorVars, utilVars>>

NestedReportFolder == CallNestedReportFolder("folder", "returned")
NestedReportFolderAgain == CallNestedReportFolder("returned", "returned again")

NextFolder == NestedReportFolder \/ NestedReportFolderAgain
SpecFolder == InitFolder /\ [][NextFolder]_vars

(***************************************************************************)
(* The format of the Compliance cell in the two Summary sheets.            *)
(***************************************************************************)
\* the largest device count of the fractions tried
MaxDevices == 10
Fractions(n) == {[num |-> u, den |-> d] : u \in 0..n, d \in 1..n}
ComplianceValues(n) == {None} \cup {Some(r) : r \in {f \in Fractions(n) : f.num <= f.den}}

InitColor ==
  /\ pc = "color"
  /\ compliance \in ComplianceValues(MaxDevices)
  /\ master_fmt = "none"
  /\ dept_fmt = "none"
  /\ data_frame = EmptyFrame
  /\ ClassifyIdle /\ GroupIdle /\ CategorizeIdle /\ TallyIdle /\ MainIdle /\ FolderIdle /\ UtilIdle

\* _write_summary_table, lines 120-137, for the Compliance column
WriteMasterCompliance ==
  /\ pc = "color"
  /\ master_fmt' = master_compliance_fmt(compliance)
  /\ pc' = "master written"
  /\ UNCHANGED <<classifyVars, data_frame, groupVars, categorizeVars, tallyVars, mainVars,
                 folderVars, utilVars, compliance, dept_fmt>>

\* write_department_reports, lines 378-392, for the Compliance column
WriteDepartmentCompliance ==
  /\ pc = "master written"
  /\ dept_fmt' = dept_compliance_fmt(compliance)
  /\ pc' = "both written"
  /\ UNCHANGED <<classifyVars, data_frame, groupVars, categorizeVars, tallyVars, mainVars,
                 folderVars, utilVars, compliance, master_fmt>>

NextColor == WriteMasterCompliance \/ WriteDepartmentCompliance
SpecColor == InitColor /\ [][NextColor]_vars

(***************************************************************************)
(* utils.py: the Spinner context manager and the thread it starts.         *)
(***************************************************************************)
\* line 154: the frames of self._spinner_cycle
SpinnerFrames == <<"|", "/", "-", "\\">>
next_frame(cycle) == SpinnerFrames[(cycle % Len(SpinnerFrames)) + 1]

\* the terminal line after text is written from its first column ("\r" + text)
Overwrite(line, text) ==
  IF Len(text) >= Len(line) THEN text
  ELSE text \o SubSeq(line, Len(text) + 1, Len(line))
Spaces(n) == [i \in 1..n |-> " "]
\* what shows on the line: its text without the trailing spaces
RECURSIVE Visible(_)
Visible(line) ==
  IF line = <<>> THEN <<>>
  ELSE IF line[Len(line)] = " " THEN Visible(SubSeq(line, 1, Len(line) - 1))
  ELSE line

\* line 163: f"\r{self.message} {next(self._spinner_cycle)}"
spin_text(msg, cycle) == msg \o <<" ", next_frame(cycle)>>
\* line 169: "\r" + " " * (len(self.message) + 2) + "\r"
clear_text(msg) == Spaces(Len(msg) + 2)

\* a loop that does not look at the stop event
loop_forever(stop) == TRUE

\* line 162: while not self._stop_event.is_set()
loop_continues(stop) == ~stop

\* the default message (line 152) and the one main passes (main.py line 177)
SpinnerMessages == 
  {<<"W", "o", "r", "k", "i", "n", "g">>,
   <<"R", "e", "a", "d", "i", "n", "g", " ", "D", "e", "f", "e", "n", "d", "e", "r", "A", "g", "e", "n", "t", "s", ".", "x", "l", "s", "x">>}

InitSpinner ==
  /\ pc = "with"
  /\ message \in SpinnerMessages
  /\ stop_event = FALSE
  /\ spinner_cycle = 0
  /\ spin_pc = "not started"
  /\ body = "none"
  /\ terminal = <<>>
  /\ data_frame = EmptyFrame
  /\ ClassifyIdle /\ GroupIdle /\ CategorizeIdle /\ TallyIdle /\ MainIdle /\ FolderIdle
  /\ ColorIdle /\ CacheIdle

spinnerRest ==
  <<classifyVars, data_frame, groupVars, categorizeVars, tallyVars, mainVars, folderVars,
    colorVars, cacheVars, message>>

\* __enter__, lines 157-159: the thread is started and the body begins
SpinnerEnter ==
  /\ pc = "with"
  /\ spin_pc' = "loop test"
  /\ pc' = "body"
  /\ UNCHANGED <<spinnerRest, stop_event, spinner_cycle, body, terminal>>

\* main.py line 178: the blocking call of the body returns or raises
BodyEnds ==
  /\ pc = "body"
  /\ \E outcome \in {"returned", "raised"} : body' = outcome
  /\ pc' = "exit"
  /\ UNCHANGED <<spinnerRest, stop_event, spinner_cycle, spin_pc, terminal>>

\* __exit__, line 168: self._stop_event.set()
ExitSetsEvent ==
  /\ pc = "exit"
  /\ stop_event' = TRUE
  /\ pc' = "exit write"
  /\ UNCHANGED <<spinnerRest, spinner_cycle, spin_pc, body, terminal>>

\* __exit__, lines 169-170: the clearing sequence is written and flushed
ExitClearsLine ==
  /\ pc = "exit write"
  /\ terminal' = Overwrite(terminal, clear_text(message))
  /\ pc' = "exited"
  /\ UNCHANGED <<spinnerRest, stop_event, spinner_cycle, spin_pc, body>>

\* _spin, line 162: the thread tests the stop event
SpinTest ==
  /\ spin_pc = "loop test"
  /\ spin_pc' = IF loop_continues(stop_event) THEN "write" ELSE "done"
  /\ UNCHANGED <<pc, spinnerRest, stop_event, spinner_cycle, body, terminal>>

\* _spin, lines 163-164: the thread writes the next frame and flushes
SpinWrite ==
  /\ spin_pc = "write"
  /\ terminal' = Overwrite(terminal, spin_text(message, spinner_cycle))
  /\ spinner_cycle' = (spinner_cycle + 1) % Len(SpinnerFrames)
  /\ spin_pc' = "sleep"
  /\ UNCHANGED <<pc, spinnerRest, stop_event, body>>

\* _spin, line 165: time.sleep(0.1) returns
SpinSleep ==
  /\ spin_pc = "sleep"
  /\ spin_pc' = "loop test"
  /\ UNCHANGED <<pc, spinnerRest, stop_event, spinner_cycle, body, terminal>>

SpinStep == SpinTest \/ SpinWrite \/ SpinSleep
NextSpinner ==
  SpinnerEnter \/ BodyEnds \/ ExitSetsEvent \/ ExitClearsLine \/ SpinTest \/ SpinWrite
    \/ SpinSleep
SpecSpinner == InitSpinner /\ [][NextSpinner]_vars
\* the started thread is scheduled again and again until _spin returns
SpecSpinnerFair ==
  SpecSpinner /\ WF_vars(SpinStep)

(***************************************************************************)
(* enrichment.py: query_ad_computers and the cache file it keeps.          *)
(***************************************************************************)
MaxRuns == 2
MaxNames == 2

DeviceNames == {"PC1", "PC2"}
\* the order sorted() gives to the names in use
NameOrder == <<"", "PC1", "PC2">>
sorted(S) == SelectSeq(NameOrder, LAMBDA n : n \in S)
\* what the directory holds about a computer
OperatingSystems == {"Windows 10", "Windows 11"}

\* lines 34-41
get_batch_size(device_count) ==
  IF device_count > 10000 THEN 100
  ELSE IF device_count > 5000 THEN 150
  ELSE IF device_count > 1000 THEN 200
  ELSE 300

\* lines 93-94
chunked(items, size) ==
  [k \in 1..((Len(items) + size - 1) \div size) |->
     SubSeq(items, (k - 1) * size + 1,
            IF k * size < Len(items) THEN k * size ELSE Len(items))]

\* the names to look up when the cache is not consulted
names_to_query_all(names, cached) == sorted({name \in Range(names) : name # ""})

\* line 80: sorted({name for name in computer_names if name and name not in cache})
names_to_query(names, cached) ==
  sorted({name \in Range(names) : name # "" /\ name \notin DOMAIN cached})

\* lines 123-128: the entry stored for a name the directory knows
cache_entry(name, os) == [Name |-> name, OperatingSystem |-> os]

\* lines 105-128 for one batch: the names the search found get an entry
cache_with(cached, found, os) ==
  [name \in DOMAIN cached \cup found |->
     IF name \in found THEN cache_entry(name, os) ELSE cached[name]]

\* line 96: the batches of the call
Batches == chunked(to_query, get_batch_size(Len(to_query)))

FileContent(file) == IF IsNone(file) THEN <<>> ELSE Val(file)

InitCache ==
  /\ pc = "no query"
  /\ cache_file \in {None, Some(cache_with(<<>>, {"PC1"}, "Windows 10"))}
  /\ runs = 0 /\ ldap_config = FALSE /\ computer_names = <<>>
  /\ cache = <<>> /\ to_query = <<>> /\ batch_i = 0 /\ unmatched = <<>>
  /\ ad_result = None /\ cache_before = <<>> /\ queried = {} /\ matched = {}
  /\ data_frame = EmptyFrame
  /\ ClassifyIdle /\ GroupIdle /\ CategorizeIdle /\ TallyIdle /\ MainIdle /\ FolderIdle
  /\ ColorIdle /\ SpinnerIdle

cacheRest ==
  <<classifyVars, data_frame, groupVars, categorizeVars, tallyVars, mainVars, folderVars,
    colorVars, spinnerVars>>

\* lines 66-69: a call; without the LDAP settings it returns at once
QueryAdComputers ==
  /\ pc \in {"no query", "query returned"}
  /\ runs < MaxRuns
  /\ \E names \in SeqsUpTo(DeviceNames \cup {""}, MaxNames), config \in BOOLEAN :
       /\ computer_names' = names
       /\ ldap_config' = config
       /\ IF config
            THEN pc' = "load cache" /\ ad_result' = None
            ELSE /\ pc' = "query returned"
                 /\ ad_result' = Some([ad_map |-> <<>>, unmatched |-> names])
  /\ runs' = runs + 1
  /\ cache_before' = FileContent(cache_file)
  /\ cache' = <<>> /\ to_query' = <<>> /\ batch_i' = 0 /\ unmatched' = <<>>
  /\ queried' = {} /\ matched' = {}
  /\ UNCHANGED <<cacheRest, cache_file>>

\* lines 72-80: the cache is loaded and the names to look up are chosen
LoadCache ==
  /\ pc = "load cache"
  /\ cache' = FileContent(cache_file)
  /\ to_query' = names_to_query(computer_names, FileContent(cache_file))
  /\ pc' = "bind"
  /\ UNCHANGED <<cacheRest, cache_file, runs, ldap_config, computer_names, batch_i,
                 unmatched, ad_result, cache_before, queried, matched>>

\* lines 82-90: the bind succeeds, or fails and the call returns
Bind ==
  /\ pc = "bind"
  /\ \E bound \in BOOLEAN :
       IF bound
         THEN pc' = "batches" /\ batch_i' = 1 /\ UNCHANGED ad_result
         ELSE /\ pc' = "query returned"
              /\ ad_result' = Some([ad_map |-> <<>>, unmatched |-> to_query])
              /\ UNCHANGED batch_i
  /\ UNCHANGED <<cacheRest, cache_file, runs, ldap_config, computer_names, cache, to_query,
                 unmatched, cache_before, queried, matched>>

\* lines 96-133: one batch; found is empty when the search finds nothing or raises
QueryBatch ==
  /\ pc = "batches"
  /\ batch_i <= Len(Batches)
  /\ \E found \in SUBSET Range(Batches[batch_i]), os \in OperatingSystems :
       /\ cache' = cache_with(cache, found, os)
       /\ unmatched' = unmatched \o SelectSeq(Batches[batch_i], LAMBDA n : n \notin found)
       /\ matched' = matched \cup found
  /\ queried' = queried \cup Range(Batches[batch_i])
  /\ batch_i' = batch_i + 1
  /\ UNCHANGED <<pc, cacheRest, cache_file, runs, ldap_config, computer_names, to_query,
                 ad_result, cache_before>>

\* lines 135-143: the cache is written back and the call returns
SaveCache ==
  /\ pc = "batches"
  /\ batch_i > Len(Batches)
  /\ cache_file' = Some(cache)
  /\ ad_result' = Some([ad_map |-> cache, unmatched |-> unmatched])
  /\ pc' = "query returned"
  /\ UNCHANGED <<cacheRest, runs, ldap_config, computer_names, cache, to_query, batch_i,
                 unmatched, cache_before, queried, matched>>

NextCache == QueryAdComputers \/ LoadCache \/ Bind \/ QueryBatch \/ SaveCache
SpecCache == InitCache /\ [][NextCache]_vars

(***************************************************************************)
(* main(): the pipeline, one block of main.py per step.  What the run      *)
(* finds outside itself (the input file, the template, the directory       *)
(* service, the recipients file, the SMTP server) is chosen at the step    *)
(* that consults it.                                                       *)
(***************************************************************************)
Text_2024_06_15 == <<"2","0","2","4","-","0","6","-","1","5">>
Text_2024_02_30 == <<"2","0","2","4","-","0","2","-","3","0">>
Text_15_06_2024 == <<"1","5","/","0","6","/","2","0","2","4">>
DateArgs == {Text_2024_06_15, Text_2024_02_30, Text_15_06_2024}

DepartmentArgs ==
  {None, Some(<<"gpedu">>), Some(<<"ungrouped", "gpedu">>), Some(<<"zzz">>)}

ArgSets ==
  [date : DateArgs, threshold_days : {DefaultThresholdDays}, department : DepartmentArgs,
   master_only : BOOLEAN, send_emails : BOOLEAN, enrich_ad : BOOLEAN,
   output_directory : {<<"out">>}]

\* datetime.date.today() at the moment a report is written
Todays == {Date(2024, 6, 15), Date(2025, 2, 1)}
DateBefore(a, b) == ToOrdinal(a.year, a.month, a.day) < ToOrdinal(b.year, b.month, b.day)

Text_PC1 == <<"P","C","1">>
Text_Intune == <<"I","n","t","u","n","e">>
AllColumns == {"DeviceName", "UserName", "_ManagedBy", "LastReportedDateTime"}
PipelineRows(ref, threshold) ==
  { Row(Some(Text_PC1), Some(Text_A_GPEDU), Some(Text_Intune), TimestampCell(ref, 0)),
    Row(Some(Text_PC1), Some(Text_A_GPEDU), Some(Text_Intune),
        TimestampCell(ref - threshold - 1, 0)),
    Row(Some(Text_PC1), Some(Text_B_gp_health), Some(Text_Intune),
        TimestampCell(ref - threshold - 1, 0)),
    Row(Some(<<>>), Some(Text_C), None, None) }
BareRows(ref) ==
  { Row(None, Some(Text_A_GPEDU), None, TimestampCell(ref, 0)),
    Row(None, Some(Text_C), None, TimestampCell(ref, 0)) }
\* rows of an export that already carries the four assessment columns
AssessedRows(ref) ==
  { Row(Some(Text_PC1), Some(Text_A_GPEDU), Some(Text_Intune), TimestampCell(ref, 0)),
    Row(Some(Text_PC1), Some(Text_B_gp_health), Some(Text_Intune), TimestampCell(ref, 0)) }
\* the input file: None when it is missing, else the table read from it
InputFiles(ref, threshold, n) ==
  {None}
    \cup {Some([columns |-> AllColumns, rows |-> rs]) :
            rs \in SeqsUpTo(PipelineRows(ref, threshold), n)}
    \cup {Some([columns |-> {"UserName", "LastReportedDateTime"}, rows |-> rs]) :
            rs \in SeqsUpTo(BareRows(ref), n)}
    \cup {Some([columns |-> AllColumns \ {"UserName"},
                rows |-> <<Row(Some(Text_PC1), None, Some(Text_Intune), None)>>])}
    \cup {Some([columns |-> AllColumns \cup AssessColumns, rows |-> rs]) :
            rs \in SeqsUpTo(AssessedRows(ref), n) \ {<<>>}}

\* the template: None when the file is missing, else its sheet names
Templates ==
  {None, Some(<<"gpedu">>), Some(<<"gphealth", "gpedu">>), Some(<<"ungrouped", "gpedu">>)}

\* the recipients file: missing, not JSON, or the departments it has recipients for
EmailConfigs ==
  { [status |-> "missing", recipients |-> {}],
    [status |-> "unreadable", recipients |-> {}],
    [status |-> "ok", recipients |-> {"gpedu"}],
    [status |-> "ok", recipients |-> {"gpedu", "gphealth", "ungrouped"}] }

Init ==
  /\ pc = "parse_date"
  /\ args \in ArgSets
  /\ MainStart
  /\ data_frame = EmptyFrame
  /\ reference_date = 0
  /\ threshold_days = args.threshold_days
  /\ categorized = NoResult
  /\ ClassifyIdle /\ GroupIdle /\ TallyIdle /\ FolderIdle /\ ColorIdle /\ UtilIdle

\* what no step of main changes
otherVars ==
  <<classifyVars, groupVars, threshold_days, categorized, tallyVars, args, folderVars,
    colorVars, utilVars>>

SysExitZero(reason) ==
  /\ pc' = "exit"
  /\ fatal' = reason
  /\ exit_status' = Some(0)
\* sys.exit(1) after logging the fatal condition
SysExit(reason) ==
  /\ pc' = "exit"
  /\ fatal' = reason
  /\ exit_status' = Some(1)

\* lines 166-171
ParseDate ==
  /\ pc = "parse_date"
  /\ LET d == strptime_date(args.date)
     IN  IF IsNone(d)
           THEN SysExit("invalid_date") /\ UNCHANGED reference_date
           ELSE /\ reference_date' = Val(d)
                /\ pc' = "load_input"
                /\ UNCHANGED <<fatal, exit_status>>
  /\ UNCHANGED <<otherVars, enrichment, emails_config, directories, data_frame, template, grouped_sheets, sheet_order, departments,
                 all_sheets, summary_df, master_report, department_reports,
                 dept_summaries, email_map, email_i, emails>>

\* lines 173-182
LoadInput ==
  /\ pc = "load_input"
  /\ \E file \in InputFiles(reference_date, args.threshold_days, MaxRows) :
       IF IsNone(file)
         THEN SysExit("input_missing") /\ UNCHANGED data_frame
         ELSE /\ data_frame' = Val(file)
              /\ IF ~HasColumn(Val(file), "UserName")
                   THEN SysExit("no_username_column")
                   ELSE pc' = "group" /\ UNCHANGED <<fatal, exit_status>>
  /\ UNCHANGED <<otherVars, enrichment, emails_config, directories, reference_date, template, grouped_sheets, sheet_order,
                 departments, all_sheets, summary_df, master_report, department_reports,
                 dept_summaries, email_map, email_i, emails>>

\* line 185
GroupRows ==
  /\ pc = "group"
  /\ grouped_sheets' = group_rows_by_department(data_frame)
  /\ pc' = "load_template"
  /\ UNCHANGED <<otherVars, enrichment, emails_config, directories, data_frame, reference_date, template, sheet_order, departments,
                 all_sheets, summary_df, master_report, department_reports,
                 dept_summaries, email_map, email_i, emails, fatal, exit_status>>

\* line 186: load_sheet_order(args.template_path)
LoadSheetOrder ==
  /\ pc = "load_template"
  /\ \E t \in Templates :
       /\ template' = t
       /\ IF IsNone(t)
            THEN SysExit("template_missing") /\ UNCHANGED sheet_order
            ELSE /\ sheet_order' = Val(t)
                 /\ pc' = "filter"
                 /\ UNCHANGED <<fatal, exit_status>>
  /\ UNCHANGED <<otherVars, enrichment, emails_config, directories, data_frame, reference_date, grouped_sheets, departments,
                 all_sheets, summary_df, master_report, department_reports,
                 dept_summaries, email_map, email_i, emails>>

\* lines 188-214
FilterDepartments ==
  /\ pc = "filter"
  /\ IF ~IsNone(args.department)
       THEN IF InvalidDepartments(Val(args.department), sheet_order) # <<>>
              THEN SysExit("unrecognized_department")
                     /\ UNCHANGED <<sheet_order, departments>>
              ELSE /\ sheet_order' = Val(args.department)
                   /\ departments' = Val(args.department)
                   /\ pc' = "enrich"
                   /\ UNCHANGED <<fatal, exit_status>>
       ELSE /\ departments' = WithUngrouped(sheet_order)
            /\ pc' = "enrich"
            /\ UNCHANGED <<sheet_order, fatal, exit_status>>
  /\ UNCHANGED <<otherVars, enrichment, emails_config, directories, data_frame, reference_date, template, grouped_sheets,
                 all_sheets, summary_df, master_report, department_reports,
                 dept_summaries, email_map, email_i, emails>>

\* lines 219-240: enrichment requested; it returns or it raises
EnrichWithAd ==
  /\ pc = "enrich"
  /\ args.enrich_ad
  /\ \E outcome \in {"returned", "raised"} :
       /\ enrichment' = outcome
       /\ all_sheets' =
            IF outcome = "returned"
              THEN EnrichedSheets(UnenrichedSheets(data_frame, grouped_sheets, departments))
              ELSE FallbackSheets(data_frame, grouped_sheets, departments)
  /\ pc' = "categorize"
  /\ UNCHANGED <<otherVars, emails_config, directories, data_frame, reference_date, template, grouped_sheets,
                 sheet_order, departments, summary_df, master_report, department_reports,
                 dept_summaries, email_map, email_i, emails, fatal, exit_status>>

\* lines 241-247
SkipEnrichment ==
  /\ pc = "enrich"
  /\ ~args.enrich_ad
  /\ all_sheets' = UnenrichedSheets(data_frame, grouped_sheets, departments)
  /\ pc' = "categorize"
  /\ UNCHANGED <<otherVars, enrichment, emails_config, directories, data_frame, reference_date, template, grouped_sheets,
                 sheet_order, departments, summary_df, master_report, department_reports,
                 dept_summaries, email_map, email_i, emails, fatal, exit_status>>

\* lines 249-259; an exception of categorize_dataframe leaves main, and
\* cli_entry turns it into exit status 1
CategorizeAndTally ==
  /\ pc = "categorize"
  /\ IF CategorizeRaises(all_sheets, reference_date, args.threshold_days)
       THEN /\ pc' = "exit"
            /\ exit_status' = Some(1)
            /\ UNCHANGED <<all_sheets, summary_df>>
       ELSE /\ all_sheets' = CategorizedSheets(all_sheets, reference_date, args.threshold_days)
            /\ summary_df' = SummaryRows(all_sheets', all_sheets'.keys)
            /\ pc' = "summary"
            /\ UNCHANGED exit_status
  /\ UNCHANGED <<otherVars, enrichment, emails_config, directories, data_frame, reference_date, template, grouped_sheets,
                 sheet_order, departments, master_report, department_reports,
                 dept_summaries, email_map, email_i, emails, fatal>>

\* lines 261-298: the summary table, and load_sheet_order a second time
BuildSummary ==
  /\ pc = "summary"
  /\ summary_df' = SummaryDf(summary_df)
  /\ IF IsNone(template)
       THEN SysExit("template_missing")
       ELSE pc' = "write_master" /\ UNCHANGED <<fatal, exit_status>>
  /\ UNCHANGED <<otherVars, enrichment, emails_config, directories, data_frame, reference_date, template, grouped_sheets,
                 sheet_order, departments, all_sheets, master_report, department_reports,
                 dept_summaries, email_map, email_i, emails>>

\* master_dept_codes (lines 296-298)
master_dept_codes == WithUngrouped(Val(template))

\* lines 317-324
WriteMaster ==
  /\ pc = "write_master"
  /\ \E today \in Todays :
       master_report' =
         Some(write_full_report(all_sheets, summary_df, master_dept_codes, TRUE, today))
  /\ pc' = "write_departments"
  /\ UNCHANGED <<otherVars, enrichment, emails_config, directories, data_frame, reference_date, template, grouped_sheets,
                 sheet_order, departments, all_sheets, summary_df, department_reports,
                 dept_summaries, email_map, email_i, emails, fatal, exit_status>>

\* lines 300-315 and 325-344
WriteDepartments ==
  /\ pc = "write_departments"
  /\ IF ~args.master_only
       THEN LET filtered == ~IsNone(args.department)
                order == IF filtered THEN Val(args.department) ELSE master_dept_codes
                sheets == IF filtered THEN FilteredSheets(all_sheets, Val(args.department))
                          ELSE all_sheets
                summary == IF filtered THEN FilteredSummary(summary_df, Val(args.department))
                           ELSE summary_df
            IN  \E today \in Todays :
                  /\ ~DateBefore(today, Val(master_report).report_date)
                  /\ department_reports' =
                       write_department_reports(sheets, summary, order,
                                                args.output_directory, ~filtered, today)
                  /\ directories' =
                       ReportFolders(directories, args.output_directory,
                                     IF filtered THEN order ELSE WithUngrouped(order), today)
                  /\ dept_summaries' =
                       [i \in DOMAIN department_reports' |->
                          [dept |-> department_reports'[i].dept,
                           path |-> Append(department_reports'[i].folder,
                                           department_reports'[i].filename)]]
       ELSE UNCHANGED <<department_reports, dept_summaries, directories>>
  /\ pc' = "email"
  /\ UNCHANGED <<otherVars, enrichment, emails_config, data_frame, reference_date, template, grouped_sheets,
                 sheet_order, departments, all_sheets, summary_df, master_report,
                 email_map, email_i, emails, fatal, exit_status>>

\* lines 346-360 and 394-395: SystemExit is no Exception, so the handler of
\* line 392 lets it through; a file that is not JSON is caught there
EmailConfig ==
  /\ pc = "email"
  /\ IF ~args.send_emails
       THEN /\ pc' = "finish"
            /\ UNCHANGED <<email_map, email_i, emails_config, fatal, exit_status>>
       ELSE \E config \in EmailConfigs :
              /\ emails_config' = config.status
              /\ CASE config.status = "missing" ->
                       SysExit("email_map_missing") /\ UNCHANGED <<email_map, email_i>>
                  [] config.status = "unreadable" ->
                       pc' = "finish" /\ UNCHANGED <<email_map, email_i, fatal, exit_status>>
                  [] OTHER ->
                       /\ email_map' = Some(config.recipients)
                       /\ email_i' = 1
                       /\ pc' = "email_loop"
                       /\ UNCHANGED <<fatal, exit_status>>
  /\ UNCHANGED <<otherVars, enrichment, directories, data_frame, reference_date, template, grouped_sheets,
                 sheet_order, departments, all_sheets, summary_df, master_report,
                 department_reports, dept_summaries, emails>>

\* the loop goes on to the next department after a "continue" (line 367), a
\* dispatch and a caught exception (line 389)
NextEmailIndexAborting(i, outcome) ==
  IF outcome = "sent" THEN i + 1 ELSE Len(dept_summaries) + 1
NextEmailIndex(i, outcome) == i + 1

\* lines 363-390: one department of the loop
EmailDepartment ==
  /\ pc = "email_loop"
  /\ email_i <= Len(dept_summaries)
  /\ LET dept_code == dept_summaries[email_i].dept
         report_path == dept_summaries[email_i].path
     IN  IF dept_code \notin Val(email_map)
           THEN emails' = Append(emails, [dept |-> dept_code, attachments |-> <<>>,
                                          outcome |-> "no recipients"])
           ELSE \E smtp \in {"sent", "RuntimeError"} :
                  emails' = Append(emails, [dept |-> dept_code,
                                            attachments |-> <<report_path>>,
                                            outcome |-> send_email_outcome(smtp)])
  /\ email_i' = NextEmailIndex(email_i, emails'[Len(emails')].outcome)
  /\ UNCHANGED <<pc, otherVars, enrichment, emails_config, directories, data_frame, reference_date, template, grouped_sheets,
                 sheet_order, departments, all_sheets, summary_df, master_report,
                 department_reports, dept_summaries, email_map, fatal, exit_status>>

EmailLoopEnd ==
  /\ pc = "email_loop"
  /\ email_i > Len(dept_summaries)
  /\ pc' = "finish"
  /\ UNCHANGED <<otherVars, enrichment, emails_config, directories, data_frame, reference_date, template, grouped_sheets,
                 sheet_order, departments, all_sheets, summary_df, master_report,
                 department_reports, dept_summaries, email_map, email_i, emails, fatal,
                 exit_status>>

\* lines 397-420 and cli_entry: main returns, the exit status is 0
Finish ==
  /\ pc = "finish"
  /\ pc' = "exit"
  /\ exit_status' = Some(0)
  /\ UNCHANGED <<otherVars, enrichment, emails_config, directories, data_frame, reference_date, template, grouped_sheets,
                 sheet_order, departments, all_sheets, summary_df, master_report,
                 department_reports, dept_summaries, email_map, email_i, emails, fatal>>

Next ==
  \/ ParseDate \/ LoadInput \/ GroupRows \/ LoadSheetOrder \/ FilterDepartments
  \/ EnrichWithAd \/ SkipEnrichment \/ CategorizeAndTally \/ BuildSummary
  \/ WriteMaster \/ WriteDepartments \/ EmailConfig \/ EmailDepartment \/ EmailLoopEnd
  \/ Finish

Spec == Init /\ [][Next]_vars

(***************************************************************************)
(* Claims about the classifier (SpecClassify).                             *)
(***************************************************************************)
\* The text of the parenthesized group that ends the name, read from the end
\* of the name backwards: the name, trimmed, ends with ")", and the group is
\* opened by the first "(" after the previous ")" (or after the start), with
\* at least one character inside.  None when the name ends with no such group.
TrailingGroupText(name) ==
  LET s == Strip(name)
      n == Len(s)
  IN  IF n = 0 \/ s[n] # ")" THEN None
      ELSE LET closes == {k \in 1..(n-1) : s[k] = ")"}
               k0 == IF closes = {} THEN 0 ELSE SetMax(closes)
               opens == {i \in (k0+1)..(n-2) : s[i] = "("}
           IN  IF opens = {} THEN None
               ELSE Some(Strip(SubSeq(s, SetMin(opens) + 1, n - 1)))

CleanedText(t) == Upper(StripNonAlnum(t))
\* some entry of the alias table equals the text up to letter case and trimming
AliasMatchesAnyCase(t) ==
  \E k \in Keys(VARIANT_TO_CODE) : Lower(k) = Lower(Strip(t))

\* C4: a classified user name without a trailing parenthetical is "ungrouped";
\* one whose trailing group text, stripped of non-alphanumerics and
\* upper-cased, is a canonical code gets that code's sheet identifier,
\* whatever the letter case; one whose text matches neither an alias nor a
\* canonical code is "ungrouped".
C4_Classification ==
  (call = "classify" /\ pc = "classified") =>
    LET t == TrailingGroupText(user_name)
    IN  /\ IsNone(t) => sheet_name = "ungrouped"
        /\ (~IsNone(t) /\ HasKey(DEPARTMENT_CODE_TO_SHEET, CleanedText(Val(t)))) =>
              sheet_name = Join(Lookup(DEPARTMENT_CODE_TO_SHEET, CleanedText(Val(t))))
        /\ (~IsNone(t) /\ ~AliasMatchesAnyCase(Val(t))
              /\ ~HasKey(DEPARTMENT_CODE_TO_SHEET, CleanedText(Val(t)))) =>
              sheet_name = "ungrouped"

\* C4 witness: a name written in lower case inside a second, trailing group
\* has been classified under the canonical sheet gpedu.
C4_Witness ==
  /\ call = "classify" /\ pc = "classified"
  /\ user_name = Jane \o <<"(","x",")"," ","(","g","p","e","d","u",")">>
  /\ sheet_name = "gpedu"

\* C5 (as claimed): for every entry of the alias table and every letter casing
\* of its variant given as the raw text, normalize_department_code returns the
\* entry's canonical code.
C5_AliasLookupAnyCase ==
  (call = "normalize" /\ pc = "normalized" /\ ~IsNone(raw)) =>
    \A i \in DOMAIN VARIANT_TO_CODE :
      Lower(VARIANT_TO_CODE[i][1]) = Lower(Strip(Val(raw))) =>
        code = Some(VARIANT_TO_CODE[i][2])

\* the lookup normalize_department_code performs finds the raw text: the
\* text, lower-cased and trimmed, is a key of the alias table
AliasFound(t) == HasKey(VARIANT_TO_CODE, Strip(Lower(t)))

CanonicalCodes == Keys(DEPARTMENT_CODE_TO_SHEET)
SheetOf(c) == Join(Lookup(DEPARTMENT_CODE_TO_SHEET, c))

\* C21 (as claimed): there are exactly 14 canonical codes, each with a lowercase
\* sheet identifier and a display name of its own: no code lacks a display
\* name, no two codes share a sheet identifier or a display name.
C21_FourteenCodesOneToOne ==
  pc = "classified" =>
    /\ Cardinality(CanonicalCodes) = 14
    /\ \A c \in CanonicalCodes :
         /\ Lookup(DEPARTMENT_CODE_TO_SHEET, c) = Lower(Lookup(DEPARTMENT_CODE_TO_SHEET, c))
         /\ SheetOf(c) \in DOMAIN DISPLAY_MAP
    /\ \A c, d \in CanonicalCodes :
         c # d => /\ SheetOf(c) # SheetOf(d)
                  /\ DisplayName(SheetOf(c)) # DisplayName(SheetOf(d))
    /\ sheet_name # "ungrouped" => sheet_name \in DOMAIN DISPLAY_MAP

\* C23: the classifier is pure and idempotent: a name classified again gives
\* the same sheet, and normalize_department_code applied to a code it has
\* returned gives that code back.
C23_ClassifierIdempotent ==
  /\ pc = "classified" => sheet_name = SheetOfUserName(Some(user_name))
  /\ pc = "normalized" => code = normalize_department_code(raw)
  /\ pc = "normalized again" => code = raw

\* the alias "bgh" gave GPHEALTH, and GPHEALTH normalized again is GPHEALTH
C23_Witness ==
  /\ pc = "normalized again"
  /\ raw = Some(<<"G","P","H","E","A","L","T","H">>)
  /\ code = Some(<<"G","P","H","E","A","L","T","H">>)

(***************************************************************************)
(* Claims about group_rows_by_department (SpecGroup).                      *)
(***************************************************************************)
\* the <<sheet, position>> places of the result where row i is found
PlacesOf(i) ==
  {sp \in {<<s, p>> : s \in DOMAIN groups, p \in 1..Len(data_frame.rows)} :
     sp[2] \in DOMAIN groups[sp[1]] /\ groups[sp[1]][sp[2]] = i}

\* C3: the result partitions the input: every input row is in exactly one
\* place of exactly one group, the groups hold nothing but input rows, and two
\* rows with the same UserName are in the same group.
C3_GroupsPartitionRows ==
  pc = "grouped" =>
    /\ \A i \in DOMAIN data_frame.rows : Cardinality(PlacesOf(i)) = 1
    /\ \A s \in DOMAIN groups : \A p \in DOMAIN groups[s] :
         groups[s][p] \in DOMAIN data_frame.rows
    /\ \A i, j \in DOMAIN data_frame.rows :
         UserNameCell(data_frame, i) = UserNameCell(data_frame, j) =>
           \E s \in DOMAIN groups :
             \E p, q \in DOMAIN groups[s] : groups[s][p] = i /\ groups[s][q] = j

\* C3 witness: a table of two rows with the same UserName has been grouped,
\* both rows under gpedu.
C3_Witness ==
  /\ pc = "grouped"
  /\ Len(data_frame.rows) = 2
  /\ data_frame.rows[1].UserName = Some(Text_A_GPEDU)
  /\ data_frame.rows[2].UserName = Some(Text_A_GPEDU)
  /\ groups = ("gpedu" :> <<1, 2>>)

(***************************************************************************)
(* Claims about categorize_dataframe (SpecCategorize).                     *)
(***************************************************************************)
\* the LastReportedDateTime of input row i is a timestamp
Parses(i) ==
  /\ HasColumn(data_frame, "LastReportedDateTime")
  /\ ~IsNone(data_frame.rows[i].LastReportedDateTime)
  /\ Val(data_frame.rows[i].LastReportedDateTime).kind = "ts"
InputDay(i) == Val(data_frame.rows[i].LastReportedDateTime).day
InputSec(i) == Val(data_frame.rows[i].LastReportedDateTime).sec

\* C1: a record whose timestamp parses is UpToDate / Fully Compliant exactly
\* when the timestamp's calendar date is on or after
\* reference_date - threshold_days, and OutOfDate / Not Compliant otherwise,
\* whatever the time of day.
C1_InclusiveCutoff ==
  pc = "categorized" =>
    \A i \in DOMAIN data_frame.rows :
      Parses(i) =>
        LET a == categorized.rows[i].assessment
        IN  IF InputDay(i) >= reference_date - threshold_days
              THEN a.Status = "UpToDate" /\ a.ComplianceLevel = "Fully Compliant"
              ELSE a.Status = "OutOfDate" /\ a.ComplianceLevel = "Not Compliant"

\* C1 witness: a record dated on the cutoff late in the day is UpToDate and a
\* record dated the day before, at midnight, is OutOfDate.
C1_Witness ==
  /\ pc = "categorized"
  /\ threshold_days = DefaultThresholdDays
  /\ Len(data_frame.rows) = 2
  /\ Parses(1) /\ InputDay(1) = reference_date - threshold_days /\ InputSec(1) = 86399
  /\ categorized.rows[1].assessment.Status = "UpToDate"
  /\ Parses(2) /\ InputDay(2) = reference_date - threshold_days - 1 /\ InputSec(2) = 0
  /\ categorized.rows[2].assessment.Status = "OutOfDate"

\* C2: on a table with records, categorize_dataframe does not raise, and every
\* record whose LastReportedDateTime is missing or is no date (the column may
\* be absent) is OutOfDate / Critical / critical / 'No check-in date'.
C2_MissingDateIsCritical ==
  (pc # "categorize" /\ Len(data_frame.rows) > 0) =>
    /\ pc = "categorized"
    /\ categorized.raised = "none"
    /\ Len(categorized.rows) = Len(data_frame.rows)
    /\ \A i \in DOMAIN data_frame.rows :
         ~Parses(i) =>
           LET a == categorized.rows[i].assessment
           IN  /\ a.Status = "OutOfDate"
               /\ a.ComplianceLevel = "Critical"
               /\ a.ComplianceSeverity = "critical"
               /\ a.ComplianceReason = "No check-in date"

\* C2 witness: a record with a missing date and a record whose date text is
\* no date have both been categorized Critical.
C2_Witness ==
  /\ pc = "categorized"
  /\ Len(data_frame.rows) = 2
  /\ HasColumn(data_frame, "LastReportedDateTime")
  /\ data_frame.rows[1].LastReportedDateTime = None
  /\ data_frame.rows[2].LastReportedDateTime = Some(NoDateText)
  /\ categorized.rows[1].assessment.ComplianceLevel = "Critical"
  /\ categorized.rows[2].assessment.ComplianceLevel = "Critical"

(***************************************************************************)
(* Claims about tally_dataframe (SpecTally).                               *)
(***************************************************************************)
\* C7: Co-managed + Intune + SCCM Managed = DeviceCount and
\* Up to Date + Out of Date <= DeviceCount.
C7_TallySums ==
  pc = "tallied" =>
    /\ tally.CoManaged + tally.Intune + tally.SccmManaged = tally.DeviceCount
    /\ tally.UpToDate + tally.OutOfDate <= tally.DeviceCount

\* C7 witness: a table with a co-managed row, a named device and a status that
\* is neither UpToDate nor OutOfDate has been tallied.
C7_Witness ==
  /\ pc = "tallied"
  /\ tally.DeviceCount >= 1
  /\ tally.CoManaged >= 1
  /\ tally.Intune >= 1
  /\ tally.UpToDate + tally.OutOfDate < tally.DeviceCount

\* the input row's DeviceName is blank after trimming
BlankDevice(i) ==
  IsNone(tally_input.rows[i].DeviceName) \/ Strip(Val(tally_input.rows[i].DeviceName)) = <<>>
\* the input without the rows whose DeviceName is blank
NamedRowsOnly ==
  [columns |-> tally_input.columns,
   rows |-> SelectSeq(tally_input.rows,
              LAMBDA r : ~IsNone(r.DeviceName) /\ Strip(Val(r.DeviceName)) # <<>>)]

\* C8 (as claimed): a row with a blank DeviceName contributes to none of the
\* counts: every count of the table equals the count of the table without its
\* blank-DeviceName rows.
C8_BlankRowsCountNowhere ==
  pc = "tallied" =>
    LET t == tally_dataframe(NamedRowsOnly)
    IN  /\ tally.DeviceCount = t.DeviceCount
        /\ tally.CoManaged = t.CoManaged
        /\ tally.Intune = t.Intune
        /\ tally.UpToDate = t.UpToDate
        /\ tally.OutOfDate = t.OutOfDate

C22_ThreeAssessments ==
  (pc = "categorized") =>
    \A i \in DOMAIN categorized.rows :
      \/ categorized.rows[i].assessment =
           [Status |-> "UpToDate", ComplianceLevel |-> "Fully Compliant",
            ComplianceSeverity |-> "ok", ComplianceReason |-> "Device is up to date"]
      \/ categorized.rows[i].assessment =
           [Status |-> "OutOfDate", ComplianceLevel |-> "Not Compliant",
            ComplianceSeverity |-> "critical", ComplianceReason |-> "Missed check-in window"]
      \/ categorized.rows[i].assessment =
           [Status |-> "OutOfDate", ComplianceLevel |-> "Critical",
            ComplianceSeverity |-> "critical", ComplianceReason |-> "No check-in date"]

\* a table with a record that missed the window and a record without a date
C22_Witness ==
  /\ pc = "categorized"
  /\ Len(categorized.rows) = 2
  /\ categorized.rows[1].assessment.ComplianceLevel = "Not Compliant"
  /\ categorized.rows[2].assessment.ComplianceLevel = "Critical"

\* the rows whose _ManagedBy text holds a co-managed word, and those holding "intune"
CoManagedRows == {i \in DOMAIN managed_by(tally_input) :
                    \/ Contains(managed_by(tally_input)[i], <<"c","o","-","m","a","n","a","g","e","d">>)
                    \/ Contains(managed_by(tally_input)[i], <<"c","o","m","a","n","a","g","e","d">>)}
IntuneRows == {i \in DOMAIN managed_by(tally_input) :
                 Contains(managed_by(tally_input)[i], <<"i","n","t","u","n","e">>)}

\* C28 (as claimed): each counted device is in one management bucket: no row is
\* counted as Co-managed and as Intune, and Co-managed, Intune and SCCM Managed
\* lie between 0 and DeviceCount. Stated for tables whose rows all name a device.
C28_OneBucketPerDevice ==
  (pc = "tallied" /\ \A i \in DOMAIN tally_input.rows : ~BlankDevice(i)) =>
    /\ CoManagedRows \cap IntuneRows = {}
    /\ 0 <= tally.CoManaged /\ tally.CoManaged <= tally.DeviceCount
    /\ 0 <= tally.Intune /\ tally.Intune <= tally.DeviceCount
    /\ 0 <= tally.SccmManaged /\ tally.SccmManaged <= tally.DeviceCount

(***************************************************************************)
(* Claims about the pipeline (Spec).                                       *)
(***************************************************************************)
FatalConditions ==
  {"invalid_date", "input_missing", "no_username_column", "template_missing",
   "unrecognized_department", "email_map_missing"}

\* C10 (as claimed): a run that terminates on a fatal condition has written
\* neither the master workbook nor a per-department workbook.
C10_FatalChecksBeforeWrites ==
  (pc = "exit" /\ fatal \in FatalConditions) =>
    (IsNone(master_report) /\ department_reports = <<>>)

\* the run went through the email section without terminating in it
PassedEmailSection ==
  ~IsNone(master_report) /\ (args.send_emails => emails_config \in {"unreadable", "ok"})

\* C11: the exit status is 0 when the run completes, and it is non-zero when the
\* input file is missing, --date does not parse as %Y-%m-%d, the input has no
\* UserName column, the template is missing, a --department value is neither a
\* template sheet nor "ungrouped", or emails are enabled and the recipients
\* file is missing.
C11_ExitStatus ==
  pc = "exit" =>
    /\ fatal \in FatalConditions => exit_status = Some(1)
    /\ PassedEmailSection => exit_status = Some(0)
    /\ exit_status = Some(0) =>
         /\ ~IsNone(strptime_date(args.date))
         /\ HasColumn(data_frame, "UserName")
         /\ ~IsNone(template)
         /\ ~IsNone(args.department) =>
              \A i \in DOMAIN Val(args.department) :
                \/ Val(args.department)[i] = "ungrouped"
                \/ \E k \in DOMAIN Val(template) : Val(template)[k] = Val(args.department)[i]
         /\ args.send_emails => emails_config # "missing"

\* emails are on, the recipients file is missing: the run has ended with status 1
C11_Witness ==
  /\ pc = "exit"
  /\ args.send_emails /\ emails_config = "missing"
  /\ fatal = "email_map_missing"
  /\ exit_status = Some(1)

\* the calls of send_email made for a department
DispatchesOf(dept) ==
  {k \in DOMAIN emails : emails[k].dept = dept /\ emails[k].outcome # "no recipients"}

\* C12 (as claimed): with emails enabled, every generated department workbook
\* whose department has recipients gives exactly one call of send_email, with
\* that workbook attached, and send_email accepts the call (it reaches SMTP).
C12_OneAcceptedMessagePerReport ==
  (pc = "exit" /\ ~IsNone(email_map)) =>
    \A i \in DOMAIN dept_summaries :
      dept_summaries[i].dept \in Val(email_map) =>
        /\ Cardinality(DispatchesOf(dept_summaries[i].dept)) = 1
        /\ \A k \in DispatchesOf(dept_summaries[i].dept) :
             /\ emails[k].attachments = <<dept_summaries[i].path>>
             /\ emails[k].outcome \in {"sent", "RuntimeError"}

\* C13: a department without recipients or with a dispatch that raises does not
\* stop the email loop: every department of the generated reports gets its
\* turn, in order, a dispatch is attempted for each one that has recipients,
\* and the run ends with status 0.
C13_EmailLoopGoesOn ==
  /\ pc = "email_loop" => (Len(emails) = email_i - 1 /\ IsNone(exit_status))
  /\ (pc \in {"finish", "exit"} /\ ~IsNone(email_map)) =>
       /\ Len(emails) = Len(dept_summaries)
       /\ \A i \in DOMAIN emails :
            /\ emails[i].dept = dept_summaries[i].dept
            /\ emails[i].outcome = "no recipients" <=>
                 dept_summaries[i].dept \notin Val(email_map)
       /\ pc = "exit" => exit_status = Some(0)

\* the first department had no recipients, the second one's dispatch raised, and
\* the run ended with status 0
C13_Witness ==
  /\ pc = "exit" /\ exit_status = Some(0)
  /\ Len(emails) = 2
  /\ emails[1].outcome = "no recipients"
  /\ emails[2].outcome = "TypeError"

\* the processed departments that have no row of the input
EmptyDepartments ==
  {d \in ToSet(departments) : d \notin DOMAIN grouped_sheets}
Placeholder == "No data for this department."

\* C14 (as claimed): a department without input rows makes no stage fail: the
\* run completes, and the department's sheet in the master workbook and in its
\* own workbook holds the placeholder.
C14_EmptyDepartmentPlaceholder ==
  (pc = "exit" /\ fatal = "none" /\ EmptyDepartments # {}) =>
    /\ exit_status = Some(0)
    /\ ~IsNone(master_report)
    /\ \A d \in EmptyDepartments :
         /\ \E i \in DOMAIN Val(master_report).sheets :
              /\ Val(master_report).sheets[i].dept = d
              /\ Val(master_report).sheets[i].content = Placeholder
         /\ ~args.master_only =>
              \E i \in DOMAIN department_reports :
                /\ department_reports[i].dept = d
                /\ department_reports[i].content = Placeholder

\* C15 (as claimed): the master Summary has one data row per department sheet
\* of the master workbook, in the order of the sheets, with or without a
\* --department filter.
C15_SummaryRowPerSheet ==
  ~IsNone(master_report) =>
    /\ Len(Val(master_report).summary) = Len(Val(master_report).sheets)
    /\ \A i \in DOMAIN Val(master_report).summary :
         i \in DOMAIN Val(master_report).sheets
           => Val(master_report).summary[i].Department = Val(master_report).sheets[i].name

\* the codes of the master workbook's department sheets, in the workbook's order
MasterSheetCodes ==
  [i \in DOMAIN Val(master_report).sheets |-> Val(master_report).sheets[i].dept]
TemplateListsUngrouped == \E i \in DOMAIN Val(template) : Val(template)[i] = "ungrouped"

\* C16: the master workbook's department sheets follow the template's sheet
\* names; "ungrouped" comes last when the template does not list it and is not
\* added again when the template lists it.
C16_MasterSheetOrder ==
  ~IsNone(master_report) =>
    IF TemplateListsUngrouped
      THEN MasterSheetCodes = Val(template)
      ELSE MasterSheetCodes = Val(template) \o <<"ungrouped">>

\* the template lists "ungrouped" first; the master workbook has it once, first
C16_Witness ==
  /\ ~IsNone(master_report)
  /\ template = Some(<<"ungrouped", "gpedu">>)
  /\ MasterSheetCodes = <<"ungrouped", "gpedu">>

\* C19 (as claimed): the output depends on the inputs only: whatever the day
\* the run happens on, the department folders, the file names and the Summary
\* date labels are the same.
C19_OutputsFromInputsOnly ==
  \A day \in Todays :
    /\ ~IsNone(master_report) => Val(master_report).date_label = strftime_d_b(day)
    /\ \A i \in DOMAIN department_reports :
         /\ department_reports[i].folder =
              path_parts(args.output_directory, department_reports[i].dept, day)
         /\ department_reports[i].filename =
              report_filename(department_reports[i].dept, day)
         /\ department_reports[i].date_label = strftime_d_b(day)

\* the rows of the input that the grouping put under a department
RowsOfDepartment(d) ==
  IF d \in DOMAIN grouped_sheets
    THEN [k \in DOMAIN grouped_sheets[d] |-> data_frame.rows[grouped_sheets[d][k]]]
    ELSE <<>>
\* every processed department has a row, so that categorization goes through
EveryDepartmentHasRows == \A d \in ToSet(departments) : d \in DOMAIN grouped_sheets

MasterSheetsOf(d) ==
  {i \in DOMAIN Val(master_report).sheets : Val(master_report).sheets[i].dept = d}

\* C27 (as claimed): in a run without a department filter every group key that
\* group_rows_by_department produced is among the departments the orchestrator
\* categorizes, and once the master workbook is written every group has one
\* sheet there holding all of its rows, so that no input row is dropped.
C27_NoRowDropped ==
  IsNone(args.department) =>
    /\ pc \in {"enrich", "categorize", "summary"} =>
         DOMAIN grouped_sheets \subseteq ToSet(departments)
    /\ ~IsNone(master_report) =>
         \A d \in DOMAIN grouped_sheets :
           /\ Cardinality(MasterSheetsOf(d)) = 1
           /\ \A i \in MasterSheetsOf(d) :
                Len(Val(master_report).sheets[i].rows) = Len(grouped_sheets[d])

(***************************************************************************)
(* Claims about the report folder (SpecFolder) and the Compliance colours  *)
(* (SpecColor).                                                            *)
(***************************************************************************)
\* the quarter of each month, January first
QuarterOfMonth ==
  <<"Q4", "Q4", "Q4", "Q1", "Q1", "Q1", "Q2", "Q2", "Q2", "Q3", "Q3", "Q3">>
FinancialYearLabel(s) ==
  CASE s = 2023 -> "2023-2024" [] s = 2024 -> "2024-2025" [] s = 2025 -> "2025-2026"
FinancialYearStart(d) == IF d.month >= 4 THEN d.year ELSE d.year - 1
FolderReturned == pc \in {"returned", "returned again"}

\* C17: _nested_report_folder returns root/department/FY/quarter/month/ISO-date,
\* FY being "{s}-{s+1}" with s the year from April on and the year before until
\* March, the quarter Q1 for April-June, Q2 for July-September, Q3 for
\* October-December, Q4 for January-March; a second call with the same
\* arguments succeeds on the existing directories and returns the same path.
C17_NestedReportFolder ==
  /\ pc # "raised"
  /\ FolderReturned =>
       /\ Len(full_path) = 6
       /\ full_path[1] = "out"
       /\ full_path[2] = folder_args.department
       /\ full_path[3] = FinancialYearLabel(FinancialYearStart(folder_args.report_date))
       /\ full_path[4] = QuarterOfMonth[folder_args.report_date.month]
       /\ full_path[6] = isoformat(folder_args.report_date)
       /\ full_path \in directories
       /\ folder_args.report_date = Date(2024, 6, 15) =>
            full_path = <<"out", "gpedu", "2024-2025", "Q1", "June", "2024-06-15">>
       /\ folder_args.report_date = Date(2025, 2, 1) =>
            /\ full_path[3] = "2024-2025"
            /\ full_path[4] = "Q4"
            /\ full_path[6] = "2025-02-01"

\* the second call for 2025-02-01 has returned the path of the first
C17_Witness ==
  /\ pc = "returned again"
  /\ folder_args.report_date = Date(2025, 2, 1)
  /\ full_path = <<"out", "gpedu", "2024-2025", "Q4", "February", "2025-02-01">>

\* the colour the specification gives a ratio
ColourOfRatio(r) ==
  IF 5 * r.num >= 4 * r.den THEN "#00b050"
  ELSE IF 10 * r.num > 7 * r.den THEN "#ffff00"
  ELSE "#ff0000"

\* C18: in the master Summary and in the department Summary the Compliance cell
\* of a ratio r is green for r >= 0.80, yellow for 0.70 < r < 0.80 and red for
\* r <= 0.70; every ratio of [0, 1] has one of the three colours, the same in
\* both sheets.
C18_ComplianceColours ==
  /\ (pc \in {"master written", "both written"} /\ ~IsNone(compliance)) =>
       bg_color(master_fmt) = ColourOfRatio(Val(compliance))
  /\ (pc = "both written" /\ ~IsNone(compliance)) =>
       /\ bg_color(dept_fmt) = ColourOfRatio(Val(compliance))
       /\ bg_color(dept_fmt) = bg_color(master_fmt)

\* the ratio 4/5 is green in both sheets
C18_Witness ==
  /\ pc = "both written"
  /\ compliance = Some([num |-> 4, den |-> 5])
  /\ bg_color(master_fmt) = "#00b050"
  /\ bg_color(dept_fmt) = "#00b050"

\* C24 (as claimed): after a Spinner scope has exited, by return or by exception,
\* the terminal line is cleared and stays cleared, however the spinner thread
\* interleaves with the exiting thread.
C24_LineClearedAfterExit ==
  pc = "exited" => Visible(terminal) = <<>>

C26_CacheReadMergeWrite ==
  ldap_config =>
    /\ queried \cap DOMAIN cache_before = {}
    /\ pc = "query returned" =>
         /\ \A name \in DOMAIN cache_before :
              /\ name \in DOMAIN FileContent(cache_file)
              /\ FileContent(cache_file)[name] = cache_before[name]
         /\ matched \subseteq DOMAIN FileContent(cache_file)

\* a second call whose names hold the cached PC1 and the new PC2, found this time
C26_Witness ==
  /\ pc = "query returned"
  /\ runs = 2
  /\ ldap_config
  /\ computer_names = <<"PC1", "PC2">>
  /\ DOMAIN cache_before = {"PC1"}
  /\ queried = {"PC2"}
  /\ matched = {"PC2"}
  /\ DOMAIN FileContent(cache_file) = {"PC1", "PC2"}
====
